---- MODULE Spec2Model ----
(***************************************************************************)
(* Model of the ledger (src/core/blockchain.py) and of the transmission    *)
(* engine's inbound path (src/engine/engine.py).                           *)
(*                                                                         *)
(* Python lists are sequences (chain[1] is the genesis block, whose index  *)
(* field is 0).  A hexdigest is a sequence of HashLen digits.  SHA-256 is  *)
(* modelled by a deterministic digest of the serialized input: the first   *)
(* MaxDifficulty digits are a pseudo-random mix of the whole input (they   *)
(* decide the proof of work), the remaining digits keep a prefix of the    *)
(* input, so that different inputs of the model have different digests.    *)
(***************************************************************************)
EXTENDS Integers, Sequences, FiniteSets, TLC

\* ---------------------------------------------------------------- bounds
MaxDifficulty == 2
Base == 2
MaxBlocks == 4
MaxEntries == 3
MaxTime == 0
NumPayloads == 2
MaxTasks == 2
MaxCallbacks == 2
MaxMsgIds == 1
MaxSends == 2
MaxReached == 1
MaxNetSends == 1
MaxInbound == 1
MaxFairCallbacks == 1
MaxLoadedAdds == 1
MaxItems == 4
MaxMineCalls == 2

\* ------------------------------------------------------ program constants
HashLen == 64
DefaultDifficulty == 2

None == "none"
Times == 0..MaxTime
Difficulties == 0..MaxDifficulty

\* ------------------------------------------------------------- variables
\* the ledger: Blockchain.chain, .pending_data, .difficulty; the last ledger
\* operation and what it returned (<<>> is None); the index of a block that
\* was overwritten from outside, or -1
VARIABLES chain, pending_data, difficulty, op, result, tampered_at

\* the engine: _message_callbacks, _shared_secrets, the reassembler's partial
\* streams, the messages handed to p2p_node.send_message, and one record per
\* call of _handle_incoming
VARIABLES callbacks, shared_secrets, reassembler, outbox, tasks

\* outbound calls: one record per call of send_text or broadcast_text; the
\* peer ids derive_shared_secret was called for, in order; the kinds of
\* suspension point at which some operation waited while another one ran
VARIABLES sends, derived, interleaved

\* two engines and the transport between them: each engine's state, and the
\* messages the transport holds
VARIABLES engines, wire

\* the utilities of the ledger module, each exercised on its own: the input
\* of calculate_merkle_root; the block a call of Block.mine works on; the
\* document Blockchain.to_dict returned and the ledger Blockchain.from_dict
\* built from it (<<>> while there is none)
VARIABLES data_list, mining, document, loaded

ledgerVars == <<chain, pending_data, difficulty>>
engineVars == <<callbacks, shared_secrets, reassembler, outbox, tasks>>
outVars == <<sends, derived, interleaved>>
netVars == <<engines, wire>>
utilVars == <<data_list, mining, document, loaded>>
vars == <<chain, pending_data, difficulty, op, result, tampered_at,
          callbacks, shared_secrets, reassembler, outbox, tasks,
          sends, derived, interleaved, engines, wire,
          data_list, mining, document, loaded>>

\* ------------------------------------------------------------ the digest
RECURSIVE Pow(_, _)
Pow(b, e) == IF e = 0 THEN 1 ELSE b * Pow(b, e - 1)

Modulus == Pow(Base, MaxDifficulty)

Weight(i) == 30 * i + 7

\* the weighted sum of s[lo..hi], by halves
RECURSIVE RangeSum(_, _, _)
RangeSum(s, lo, hi) ==
    IF lo > hi THEN 0
    ELSE IF lo = hi THEN Weight(lo) * s[lo]
    ELSE LET mid == (lo + hi) \div 2
         IN  RangeSum(s, lo, mid) + RangeSum(s, mid + 1, hi)

WeightedSum(s, i) == RangeSum(s, i, Len(s))

\* hashlib.sha256(bytes).hexdigest()
Sha256Hex(s) ==
    LET v == WeightedSum(s, 1) % Modulus
    IN  [i \in 1..HashLen |->
            IF i <= MaxDifficulty
            THEN (v \div Pow(Base, MaxDifficulty - i)) % Base
            ELSE IF i - MaxDifficulty <= Len(s)
                 THEN 1 + (s[i - MaxDifficulty] % 15)
                 ELSE 0]

\* "0" * 64
ZeroHash == [i \in 1..HashLen |-> 0]

\* str.startswith("0" * d)
StartsWithZeros(h, d) == \A i \in 1..d : i <= Len(h) /\ h[i] = 0

\* ------------------------------------------------------------- payloads
\* the payloads handed to add_data by a direct caller: {"i": n}
Payloads == {[i |-> n] : n \in 1..NumPayloads}

TypeCode(t) ==
    CASE t = "message" -> 1
      [] t = "broadcast" -> 2
      [] t = "received" -> 3
      [] OTHER -> 4

AddrCode(a) ==
    CASE a = "alice" -> 1
      [] a = "bob" -> 2
      [] a = "mallory" -> 3
      [] OTHER -> 4

\* json.dumps of one payload
PayloadString(p) ==
    IF "i" \in DOMAIN p
    THEN <<p.i>>
    ELSE <<10, TypeCode(p.type), p.id, AddrCode(p.sender), p.timestamp>>
         \o (IF "recipient" \in DOMAIN p THEN <<AddrCode(p.recipient)>> ELSE <<>>)

RECURSIVE PayloadsString(_)
PayloadsString(ps) ==
    IF ps = <<>> THEN <<>>
    ELSE PayloadString(Head(ps)) \o PayloadsString(Tail(ps))

GenesisData == [message |-> "Genesis Block", type |-> "system"]

\* json.dumps of a block's data
DataString(data) ==
    IF "messages" \in DOMAIN data
    THEN <<13>> \o PayloadsString(data.messages) \o <<12>>
    ELSE <<14>>

\* ---------------------------------------------------------------- Block
\* json.dumps({index, timestamp, data, previous_hash, nonce}, sort_keys=True);
\* the previous hash is written last because the digest keeps a prefix.
BlockString(b) ==
    DataString(b.data) \o <<b.index, b.nonce, b.timestamp>> \o b.previous_hash

calculate_hash(b) == Sha256Hex(BlockString(b))

\* Block(...) with __post_init__
NewBlock(index, timestamp, data, previous_hash) ==
    LET b == [index |-> index, timestamp |-> timestamp, data |-> data,
              previous_hash |-> previous_hash, nonce |-> 0, hash |-> <<>>]
    IN  [b EXCEPT !.hash = calculate_hash(b)]

mine_unmined(b, d) == b

RECURSIVE mine(_, _)
mine(b, d) ==
    IF StartsWithZeros(b.hash, d) THEN b
    ELSE LET b1 == [b EXCEPT !.nonce = @ + 1]
         IN  mine([b1 EXCEPT !.hash = calculate_hash(b1)], d)

\* ----------------------------------------------------------- Blockchain
create_genesis_unmined(d, ts) == NewBlock(0, ts, GenesisData, ZeroHash)

create_genesis_block(d, ts) == mine(NewBlock(0, ts, GenesisData, ZeroHash), d)

latest_block(c) == c[Len(c)]

add_data_front(pending, data) == <<data>> \o pending

\* Blockchain.add_data
add_data(pending, data) == Append(pending, data)

mine_pending_keep(c, pending, d, ts) ==
    IF pending = <<>>
    THEN [chain |-> c, pending_data |-> pending, result |-> <<>>]
    ELSE LET new_block == mine(NewBlock(Len(c), ts,
                                        [messages |-> Tail(pending)],
                                        latest_block(c).hash), d)
         IN  [chain |-> Append(c, new_block), pending_data |-> <<>>,
              result |-> <<new_block>>]

mine_pending_empty(c, pending, d, ts) ==
    LET new_block == mine(NewBlock(Len(c), ts, [messages |-> pending],
                                   latest_block(c).hash), d)
    IN  [chain |-> Append(c, new_block), pending_data |-> <<>>,
         result |-> <<new_block>>]

mine_pending_relinked(c, pending, d, ts) ==
    IF pending = <<>>
    THEN [chain |-> c, pending_data |-> pending, result |-> <<>>]
    ELSE LET new_block == mine(NewBlock(Len(c), ts, [messages |-> pending],
                                        latest_block(c).hash), d)
         IN  [chain |-> Append([c EXCEPT ![Len(c)].nonce = @ + 1], new_block),
              pending_data |-> <<>>, result |-> <<new_block>>]

\* Blockchain.mine_pending: the new chain, the new pending buffer and the
\* returned value (<<>> is None, <<b>> is the block b)
mine_pending(c, pending, d, ts) ==
    IF pending = <<>>
    THEN [chain |-> c, pending_data |-> pending, result |-> <<>>]
    ELSE LET new_block == mine(NewBlock(Len(c), ts, [messages |-> pending],
                                        latest_block(c).hash), d)
         IN  [chain |-> Append(c, new_block), pending_data |-> <<>>,
              result |-> <<new_block>>]

\* Blockchain.is_chain_valid: the loop starts at the second block
is_chain_valid(c, d) ==
    \A i \in 2..Len(c) :
        /\ c[i].hash = calculate_hash(c[i])
        /\ c[i].previous_hash = c[i - 1].hash
        /\ StartsWithZeros(c[i].hash, d)

\* --------------------------------------------------------------- actions
\* Blockchain(difficulty=d)
InitLedger(D) ==
    /\ \E d \in D, ts \in Times :
          /\ difficulty = d
          /\ chain = <<create_genesis_block(d, ts)>>
    /\ pending_data = <<>>
    /\ op = "init"
    /\ result = <<>>
    /\ tampered_at = -1

IdleTask ==
    [pc |-> "idle", mtype |-> None, keyknown |-> FALSE, sigok |-> FALSE,
     decrypt_fails |-> FALSE, decode_fails |-> FALSE, key |-> None,
     peer_id |-> None, nonce |-> None, decrypted |-> FALSE,
     message |-> <<>>, received |-> <<>>, i |-> 0, log |-> <<>>]

\* TransmissionEngine.__init__, nothing received yet
InitEngine ==
    /\ callbacks = <<>>
    /\ shared_secrets = {}
    /\ reassembler = {}
    /\ outbox = <<>>
    /\ tasks = [t \in 1..MaxTasks |-> IdleTask]

\* a call of send_text or broadcast_text not yet made
IdleSend ==
    [pc |-> "idle", kind |-> None, recipient_id |-> None, text |-> None,
     encrypt |-> FALSE, found |-> <<>>, message |-> <<>>, entry |-> <<>>,
     reported |-> <<>>, returned |-> <<>>, steps |-> <<>>]

\* no outbound call made yet
InitOut ==
    /\ sends = [s \in 1..MaxSends |-> IdleSend]
    /\ derived = <<>>
    /\ interleaved = {}

\* the specifications of one engine hold no second engine
NoNet ==
    /\ engines = <<>>
    /\ wire = {}

\* no utility exercised
NoUtil ==
    /\ data_list = <<>>
    /\ mining = <<>>
    /\ document = <<>>
    /\ loaded = <<>>

Init == InitLedger(Difficulties) /\ InitEngine /\ InitOut /\ NoNet /\ NoUtil

\* the payloads the ledger holds, mined or pending
RECURSIVE get_messages(_)
get_messages(c) ==
    IF Len(c) <= 1 THEN <<>>
    ELSE get_messages(SubSeq(c, 1, Len(c) - 1))
         \o (IF "messages" \in DOMAIN c[Len(c)].data
             THEN c[Len(c)].data.messages ELSE <<>>)

Entries == Len(get_messages(chain)) + Len(pending_data)

AddData(data) ==
    /\ Entries < MaxEntries
    /\ pending_data' = add_data(pending_data, data)
    /\ op' = "add_data"
    /\ result' = <<>>
    /\ UNCHANGED <<chain, difficulty, tampered_at>>
    /\ UNCHANGED <<engineVars, outVars, netVars, utilVars>>

MinePending(ts) ==
    /\ pending_data = <<>> \/ Len(chain) < MaxBlocks
    /\ LET r == mine_pending(chain, pending_data, difficulty, ts)
       IN  /\ chain' = r.chain
           /\ pending_data' = r.pending_data
           /\ result' = r.result
    /\ op' = "mine_pending"
    /\ UNCHANGED <<difficulty, tampered_at>>
    /\ UNCHANGED <<engineVars, outVars, netVars, utilVars>>

IsChainValid ==
    /\ result' = <<is_chain_valid(chain, difficulty)>>
    /\ op' = "is_chain_valid"
    /\ UNCHANGED <<chain, pending_data, difficulty, tampered_at>>
    /\ UNCHANGED <<engineVars, outVars, netVars, utilVars>>

Next ==
    \/ \E data \in Payloads : AddData(data)
    \/ \E ts \in Times : MinePending(ts)
    \/ IsChainValid

Spec == Init /\ [][Next]_vars

\* ----------------------------------------- the ledger under tampering
\* the values a stored block's data can be overwritten with
RECURSIVE SeqsUpTo(_, _)
SeqsUpTo(S, n) ==
    IF n = 0 THEN {<<>>}
    ELSE LET shorter == SeqsUpTo(S, n - 1)
         IN  shorter \cup {Append(q, x) : q \in shorter, x \in S}

DataValues == {GenesisData} \cup {[messages |-> q] : q \in SeqsUpTo(Payloads, 2)}

\* chain[i].data = d, for a block already in the chain (i is the block's index)
TamperData(i, d) ==
    /\ tampered_at = -1
    /\ i + 1 \in DOMAIN chain
    /\ d # chain[i + 1].data
    /\ chain' = [chain EXCEPT ![i + 1].data = d]
    /\ tampered_at' = i
    /\ op' = "tamper"
    /\ result' = <<>>
    /\ UNCHANGED <<pending_data, difficulty>>
    /\ UNCHANGED <<engineVars, outVars, netVars, utilVars>>

\* chain[i].previous_hash = h, for a block already in the chain
TamperPreviousHash(i, h) ==
    /\ tampered_at = -1
    /\ i + 1 \in DOMAIN chain
    /\ h # chain[i + 1].previous_hash
    /\ chain' = [chain EXCEPT ![i + 1].previous_hash = h]
    /\ tampered_at' = i
    /\ op' = "tamper"
    /\ result' = <<>>
    /\ UNCHANGED <<pending_data, difficulty>>
    /\ UNCHANGED <<engineVars, outVars, netVars, utilVars>>

NextTamper ==
    \/ \E data \in Payloads : AddData(data)
    \/ \E ts \in Times : MinePending(ts)
    \/ IsChainValid
    \/ \E i \in 0..(MaxBlocks - 1), d \in DataValues : TamperData(i, d)
    \/ \E i \in 0..(MaxBlocks - 1),
          h \in {ZeroHash} \cup {chain[j].hash : j \in DOMAIN chain} :
          TamperPreviousHash(i, h)

SpecTamper == Init /\ [][NextTamper]_vars

\* ------------------------------------------------------------ the engine
\* the engine under study is Bob's; its wallet address and keys are "bob"
Self == "bob"
PeerIds == {"alice", "mallory"}

\* a public signing key is named by its holder, and a wallet address is
\* derived from the public signing key
AddressOf(public_key) == public_key

\* wallet.sign / sign_message
sign(signable, holder) == [signer |-> holder, signed |-> signable]

\* verify_signature: a pure predicate, false on any mismatch
verify_signature(signable, signature, public_key) ==
    signature.signer = public_key /\ signature.signed = signable

\* derive_shared_secret: symmetric in the two key holders
derive_shared_secret(own, peer_key) == {own, peer_key}

\* byte strings: text, bytes that are no valid UTF-8, and ciphertexts
InvalidUtf8 == "\\xff"
Plain(body) ==
    [enc |-> FALSE, body |-> body, key |-> {}, nonce |-> None, utf8 |-> FALSE]
\* utf8: whether the bytes of the ciphertext happen to be valid UTF-8
Cipher(body, secret, nonce, utf8) ==
    [enc |-> TRUE, body |-> body, key |-> secret, nonce |-> nonce,
     utf8 |-> utf8]

\* decrypt_message: the plaintext, or an authentication failure
decrypt_message(content, secret, nonce) ==
    IF content.enc /\ content.key = secret /\ content.nonce = nonce
    THEN [ok |-> TRUE, plain |-> Plain(content.body)]
    ELSE [ok |-> FALSE, plain |-> content]

\* bytes.decode(): <<text>>, or <<>> on UnicodeDecodeError
decode(content) ==
    IF content.enc
    THEN IF content.utf8 THEN <<"<ciphertext bytes>">> ELSE <<>>
    ELSE IF content.body = InvalidUtf8 THEN <<>> ELSE <<content.body>>

\* MessagePayload.get_signable_content: every field but the signature
get_signable_content(m) ==
    [id |-> m.id, type |-> m.type, sender |-> m.sender,
     recipient |-> m.recipient, timestamp |-> m.timestamp,
     content |-> m.content, nonce |-> m.nonce, name |-> m.name,
     chunk_info |-> m.chunk_info]

\* ChunkReassembler.add_chunk on the set of chunks held: a chunk replaces one
\* of the same stream and sequence; a completed stream is handed out and
\* dropped
add_chunk(held, chunk) ==
    LET others == {c \in held : ~(c.stream_id = chunk.stream_id
                                   /\ c.sequence = chunk.sequence)}
        now == others \cup {chunk}
        mine_ == {c \in now : c.stream_id = chunk.stream_id}
        complete == \A q \in 0..(chunk.total - 1) :
                        \E c \in mine_ : c.sequence = q
    IN  IF complete THEN now \ mine_ ELSE now

\* dict lookup in _shared_secrets, a set of <<peer id, secret>>
Cached(cache, id) == \E e \in cache : e[1] = id
Lookup(cache, id) == (CHOOSE e \in cache : e[1] = id)[2]

get_shared_secret_by_key(self, peer, cache) ==
    IF peer.encryption_key = None
    THEN [secret |-> {}, cache |-> cache, derived |-> <<>>]
    ELSE LET fresh == derive_shared_secret(self, peer.encryption_key)
             hit == <<peer.id, fresh>> \in cache
             c2 == IF hit THEN cache
                   ELSE {e \in cache : e[1] # peer.id} \cup {<<peer.id, fresh>>}
         IN  [secret |-> fresh, cache |-> c2,
              derived |-> IF hit THEN <<>> ELSE <<peer.id>>]

\* TransmissionEngine._get_shared_secret of the engine whose wallet is self: the
\* secret ({} is None), the cache, and the peer ids derive_shared_secret was
\* called for
get_shared_secret(self, peer, cache) ==
    IF peer.encryption_key = None
    THEN [secret |-> {}, cache |-> cache, derived |-> <<>>]
    ELSE LET hit == Cached(cache, peer.id)
             c2 == IF hit THEN cache
                   ELSE cache \cup {<<peer.id,
                            derive_shared_secret(self, peer.encryption_key)>>}
         IN  [secret |-> Lookup(c2, peer.id), cache |-> c2,
              derived |-> IF hit THEN <<>> ELSE <<peer.id>>]

Dropped(why, cache, held) ==
    [outcome |-> why, cache |-> cache, reassembler |-> held,
     received |-> <<>>, entries |-> <<>>]

text_keep_undecrypted(self, m, peer, verified, cache, held) ==
    LET attempt == m.nonce # None /\ peer.encryption_key # None
        g == IF attempt THEN get_shared_secret(self, peer, cache)
             ELSE [secret |-> {}, cache |-> cache]
        d == IF attempt /\ g.secret # {}
             THEN decrypt_message(m.content, g.secret, m.nonce)
             ELSE [ok |-> TRUE, plain |-> m.content]
        text == decode(d.plain)
    IN  IF text = <<>> THEN Dropped("decode_error", g.cache, held)
        ELSE [outcome |-> "accepted", cache |-> g.cache, reassembler |-> held,
              received |-> <<[id |-> m.id, sender |-> m.sender,
                              sender_name |-> m.name, content |-> text[1],
                              timestamp |-> m.timestamp,
                              verified |-> verified]>>,
              entries |-> <<[type |-> "received", id |-> m.id,
                             sender |-> m.sender,
                             timestamp |-> m.timestamp]>>]

\* _handle_text_message up to and including add_data: decrypt if a nonce is
\* present and a secret is derivable, decode, build the ReceivedMessage and
\* the ledger entry
handle_text_message(self, m, peer, verified, cache, held) ==
    LET attempt == m.nonce # None /\ peer.encryption_key # None
        g == IF attempt THEN get_shared_secret(self, peer, cache)
             ELSE [secret |-> {}, cache |-> cache]
        d == IF attempt /\ g.secret # {}
             THEN decrypt_message(m.content, g.secret, m.nonce)
             ELSE [ok |-> TRUE, plain |-> m.content]
        text == decode(d.plain)
    IN  IF ~d.ok THEN Dropped("decrypt_error", g.cache, held)
        ELSE IF text = <<>> THEN Dropped("decode_error", g.cache, held)
        ELSE [outcome |-> "accepted", cache |-> g.cache, reassembler |-> held,
              received |-> <<[id |-> m.id, sender |-> m.sender,
                              sender_name |-> m.name, content |-> text[1],
                              timestamp |-> m.timestamp,
                              verified |-> verified]>>,
              entries |-> <<[type |-> "received", id |-> m.id,
                             sender |-> m.sender,
                             timestamp |-> m.timestamp]>>]

\* the Chunk _handle_stream_message builds from a message with chunk_info
chunk_of(m) ==
    [stream_id |-> m.chunk_info[1].stream_id,
     sequence |-> m.chunk_info[1].sequence,
     total |-> m.chunk_info[1].total,
     data |-> m.content]

\* what reassembler.add_chunk(chunk) returns: <<>> (None), or, on the call
\* that supplies the last missing sequence, the data of the stream's chunks
\* in sequence order
completed_by(held, chunk) ==
    LET now == {c \in held : ~(c.stream_id = chunk.stream_id
                                /\ c.sequence = chunk.sequence)}
               \cup {chunk}
        at(q) == CHOOSE c \in now : c.stream_id = chunk.stream_id
                                     /\ c.sequence = q
    IN  IF \A q \in 0..(chunk.total - 1) :
              \E c \in now : c.stream_id = chunk.stream_id /\ c.sequence = q
        THEN <<[q \in 1..chunk.total |-> at(q - 1).data]>>
        ELSE <<>>

handle_stream_message_unfed(m, cache, held) == Dropped("stream", cache, held)

\* _handle_stream_message
handle_stream_message(m, cache, held) ==
    IF m.chunk_info = <<>>
    THEN Dropped("stream", cache, held)
    ELSE Dropped("stream", cache,
                 add_chunk(held, [stream_id |-> m.chunk_info[1].stream_id,
                                  sequence |-> m.chunk_info[1].sequence,
                                  total |-> m.chunk_info[1].total,
                                  data |-> m.content]))

StreamTypes == {"STREAM_START", "STREAM_CHUNK", "STREAM_END"}

handle_incoming_unverified(self, m, peer, cache, held) ==
    IF peer.public_key = None
    THEN Dropped("no_key", cache, held)
    ELSE LET verified == verify_signature(get_signable_content(m),
                                          m.signature, peer.public_key)
         IN  IF m.type = "TEXT"
             THEN handle_text_message(self, m, peer, verified, cache, held)
             ELSE IF m.type = "ACK"
             THEN Dropped("ack", cache, held)
             ELSE IF m.type \in StreamTypes
             THEN handle_stream_message(m, cache, held)
             ELSE Dropped("ignored", cache, held)

handle_incoming_acks_ack(self, m, peer, cache, held) ==
    IF peer.public_key = None
    THEN Dropped("no_key", cache, held)
    ELSE LET verified == verify_signature(get_signable_content(m),
                                          m.signature, peer.public_key)
         IN  IF ~verified
             THEN Dropped("bad_signature", cache, held)
             ELSE IF m.type \in {"TEXT", "ACK"}
             THEN handle_text_message(self, m, peer, verified, cache, held)
             ELSE IF m.type \in StreamTypes
             THEN handle_stream_message(m, cache, held)
             ELSE Dropped("ignored", cache, held)

\* _handle_incoming up to the first suspension: verify, then branch on the type
handle_incoming(self, m, peer, cache, held) ==
    IF peer.public_key = None
    THEN Dropped("no_key", cache, held)
    ELSE LET verified == verify_signature(get_signable_content(m),
                                          m.signature, peer.public_key)
         IN  IF ~verified
             THEN Dropped("bad_signature", cache, held)
             ELSE IF m.type = "TEXT"
             THEN handle_text_message(self, m, peer, verified, cache, held)
             ELSE IF m.type = "ACK"
             THEN Dropped("ack", cache, held)
             ELSE IF m.type \in StreamTypes
             THEN handle_stream_message(m, cache, held)
             ELSE Dropped("ignored", cache, held)

\* one step of a handler's trace: signature verified, ledger entry appended,
\* observer cb invoked with arg, observer cb finished (info: how), ack handed
\* to the peer directory (n: the observers registered at that moment)
Event(ev, cb, info, arg, n) ==
    [ev |-> ev, cb |-> cb, info |-> info, arg |-> arg, n |-> n]

\* MessagePayload.create: a message not yet signed
create(id, type, sender, recipient, content, nonce, name) ==
    [id |-> id, type |-> type, sender |-> sender, recipient |-> recipient,
     timestamp |-> 0, content |-> content, nonce |-> nonce, name |-> name,
     chunk_info |-> <<>>]

\* message.signature = wallet.sign(message.get_signable_content())
signed_by(message, holder) ==
    [f \in DOMAIN message \cup {"signature"} |->
        IF f = "signature" THEN sign(get_signable_content(message), holder)
        ELSE message[f]]

\* the id MessagePayload.create gives the acknowledgment of message id
AckId(original_message_id) == 100 + original_message_id

\* create_ack_message(sender, recipient, original_message_id, sign_func): the
\* content names the acknowledged message
create_ack_message(sender, recipient, original_message_id) ==
    signed_by(create(AckId(original_message_id), "ACK", sender, recipient,
                     Plain(ToString(original_message_id)), None, None),
              sender)

notify_or_ack_early(self, task, t, cbs, i) ==
    IF i <= Len(cbs) /\ i <= 1
    THEN [task |-> [task EXCEPT !.pc = "callback", !.i = i,
                       !.log = Append(@, Event("observer", cbs[i], "",
                                               task.received, 0))],
          sent |-> <<>>]
    ELSE [task |-> [task EXCEPT !.pc = "ack", !.i = i,
                       !.log = Append(@, Event("ack", 0, "", <<>>, Len(cbs)))],
          sent |-> <<[message |-> create_ack_message(self,
                                      task.received[1].sender,
                                      task.received[1].id),
                      to |-> task.peer_id, task |-> t]>>]

notify_or_ack_twice(self, task, t, cbs, i) ==
    LET one == notify_or_ack_early(self, task, t, cbs, IF i <= Len(cbs)
                                                        THEN 1 ELSE 2)
    IN  IF i <= Len(cbs)
        THEN [task |-> [one.task EXCEPT !.i = i,
                           !.log = Append(task.log,
                                          Event("observer", cbs[i], "",
                                                task.received, 0))],
              sent |-> <<>>]
        ELSE [task |-> [one.task EXCEPT !.i = i,
                           !.log = Append(task.log,
                                          Event("ack", 0, "", <<>>,
                                                Len(cbs)))],
              sent |-> one.sent \o one.sent]

\* the loop over _message_callbacks at its i-th item: invoke that observer
\* and wait for it, or, the list exhausted, build the acknowledgment and hand
\* it to p2p_node.send_message
notify_or_ack(self, task, t, cbs, i) ==
    IF i <= Len(cbs)
    THEN [task |-> [task EXCEPT !.pc = "callback", !.i = i,
                       !.log = Append(@, Event("observer", cbs[i], "",
                                               task.received, 0))],
          sent |-> <<>>]
    ELSE [task |-> [task EXCEPT !.pc = "ack", !.i = i,
                       !.log = Append(@, Event("ack", 0, "", <<>>, Len(cbs)))],
          sent |-> <<[message |-> create_ack_message(self,
                                      task.received[1].sender,
                                      task.received[1].id),
                      to |-> task.peer_id, task |-> t]>>]

callback_completed_unguarded(self, task, t, cbs, outcome) ==
    LET logged == [task EXCEPT !.log = Append(@, Event("observer_done",
                                       cbs[task.i], outcome, <<>>, 0))]
    IN  IF outcome # "return"
        THEN [task |-> [logged EXCEPT !.pc = "raised"], sent |-> <<>>]
        ELSE notify_or_ack(self, logged, t, cbs, task.i + 1)

\* the awaited observer finishes: `except Exception` catches an Exception and
\* lets any other BaseException (asyncio.CancelledError, SystemExit) through
callback_completed(self, task, t, cbs, outcome) ==
    LET logged == [task EXCEPT !.log = Append(@, Event("observer_done",
                                       cbs[task.i], outcome, <<>>, 0))]
    IN  IF outcome = "base_exception"
        THEN [task |-> [logged EXCEPT !.pc = "raised"], sent |-> <<>>]
        ELSE notify_or_ack(self, logged, t, cbs, task.i + 1)

\* ---------------------------------------------------- what can arrive
MsgIds == 1..MaxMsgIds

\* Peer objects the transport can name as the origin of a message
Peers ==
    { [id |-> "alice", public_key |-> "alice", encryption_key |-> "alice"],
      [id |-> "alice", public_key |-> None, encryption_key |-> "alice"],
      [id |-> "mallory", public_key |-> "mallory", encryption_key |-> None],
      [id |-> "mallory", public_key |-> "mallory",
       encryption_key |-> "mallory"] }

\* content and nonce of the text messages: plain text, undecodable bytes,
\* a ciphertext for Bob with its nonce, with another nonce, with no nonce,
\* one made under another secret, one whose plaintext is undecodable, and
\* plain text sent with a nonce
Bodies ==
    LET ab == derive_shared_secret(Self, "alice")
        mb == derive_shared_secret(Self, "mallory")
    IN  { <<Plain("hi"), None>>,
          <<Plain(InvalidUtf8), None>>,
          <<Cipher("hi", ab, "n1", FALSE), "n1">>,
          <<Cipher("hi", ab, "n1", FALSE), "n2">>,
          <<Cipher("hi", ab, "n1", TRUE), None>>,
          <<Cipher("hi", ab, "n1", TRUE), "n1">>,
          <<Cipher("hi", mb, "n1", FALSE), "n1">>,
          <<Cipher(InvalidUtf8, ab, "n1", FALSE), "n1">>,
          <<Plain("hi"), "n1">> }

\* who signed, and whether over the message as delivered
Signers == {<<"alice", TRUE>>, <<"mallory", TRUE>>, <<"alice", FALSE>>}

Unsigned(id, type, sender, content, nonce, chunk_info) ==
    [id |-> id, type |-> type, sender |-> sender, recipient |-> Self,
     timestamp |-> 0, content |-> content, nonce |-> nonce,
     name |-> sender, chunk_info |-> chunk_info]

\* the message u carrying a signature by signer, made over u itself or, when
\* not intact, over a message that differs from u
Signed(u, signer, intact) ==
    [id |-> u.id, type |-> u.type, sender |-> u.sender,
     recipient |-> u.recipient, timestamp |-> u.timestamp,
     content |-> u.content, nonce |-> u.nonce, name |-> u.name,
     chunk_info |-> u.chunk_info,
     signature |-> sign(get_signable_content(
                            IF intact THEN u ELSE [u EXCEPT !.id = 0]),
                        signer)]

TextMessages ==
    { Signed(Unsigned(id, "TEXT", sender, b[1], b[2], <<>>), g[1], g[2]) :
        id \in MsgIds, sender \in PeerIds, b \in Bodies, g \in Signers }

AckMessages ==
    { Signed(Unsigned(id, "ACK", g[1], Plain("hi"), None, <<>>), g[1], g[2]) :
        id \in MsgIds, g \in Signers }

\* a stream of two chunks, and a stream message without chunk_info
ChunkInfo(q) == <<[stream_id |-> 1, sequence |-> q, total |-> 2]>>
Streamed ==
    { <<"STREAM_START", ChunkInfo(0)>>, <<"STREAM_CHUNK", <<>>>>,
      <<"STREAM_END", ChunkInfo(1)>> }

StreamMessages ==
    { Signed(Unsigned(1, c[1], g[1], Plain("hi"), None, c[2]), g[1], g[2]) :
        c \in Streamed, g \in Signers }

Messages == TextMessages \cup AckMessages \cup StreamMessages

\* ------------------------------------------------------- engine actions
\* TransmissionEngine.on_message
OnMessage(cb) ==
    /\ Len(callbacks) < MaxCallbacks
    /\ cb = Len(callbacks) + 1
    /\ callbacks' = Append(callbacks, cb)
    /\ UNCHANGED <<chain, pending_data, difficulty, op, result, tampered_at,
                   shared_secrets, reassembler, outbox, tasks>>

\* the transport calls _handle_incoming(m, peer); the call runs to its first
\* suspension: the first observer, or the dispatch of the acknowledgment
HandleIncoming(m, peer) ==
    \E t \in 1..MaxTasks :
        /\ tasks[t].pc = "idle"
        /\ \A u \in 1..(t - 1) : tasks[u].pc # "idle"
        /\ LET r == handle_incoming(Self, m, peer, shared_secrets, reassembler)
               keyknown == peer.public_key # None
               sigok == keyknown /\ verify_signature(get_signable_content(m),
                                                     m.signature, peer.public_key)
               text == m.type = "TEXT" /\ sigok
               secret == get_shared_secret(Self, peer, shared_secrets).secret
               dec == IF m.nonce # None /\ secret # {}
                      THEN decrypt_message(m.content, secret, m.nonce)
                      ELSE [ok |-> TRUE, plain |-> m.content]
               rejected == r.outcome \in {"no_key", "bad_signature"}
               started ==
                   [IdleTask EXCEPT
                       !.pc = "done", !.mtype = m.type,
                       !.keyknown = keyknown, !.sigok = sigok,
                       !.decrypt_fails = text /\ ~dec.ok,
                       !.decode_fails = text /\ dec.ok
                                        /\ decode(dec.plain) = <<>>,
                       !.key = peer.public_key, !.peer_id = peer.id,
                       !.nonce = m.nonce,
                       !.decrypted = text /\ m.nonce # None /\ secret # {}
                                     /\ dec.ok,
                       !.message = IF text THEN <<m>> ELSE <<>>,
                       !.received = r.received,
                       !.log = (IF rejected THEN <<>>
                                ELSE <<Event("verified", 0, "", <<>>, 0)>>)
                               \o (IF r.entries # <<>>
                                   THEN <<Event("ledger", 0, "", <<>>, 0)>>
                                   ELSE <<>>)
                               \o (IF r.outcome = "stream"
                                      /\ m.chunk_info # <<>>
                                   THEN <<Event("chunk", 0, "",
                                                <<chunk_of(m)>>, 0)>>
                                        \o (LET done == completed_by(
                                                    reassembler, chunk_of(m))
                                            IN  IF done = <<>> THEN <<>>
                                                ELSE <<Event("completed", 0,
                                                         "", done, 0)>>)
                                   ELSE <<>>)]
               step == IF r.outcome = "accepted"
                       THEN notify_or_ack(Self, started, t, callbacks, 1)
                       ELSE [task |-> started, sent |-> <<>>]
           IN  /\ tasks' = [tasks EXCEPT ![t] = step.task]
               /\ outbox' = outbox \o step.sent
               /\ pending_data' = IF r.entries = <<>> THEN pending_data
                                  ELSE add_data(pending_data, r.entries[1])
               /\ shared_secrets' = r.cache
               /\ reassembler' = r.reassembler
        /\ UNCHANGED <<chain, difficulty, op, result, tampered_at, callbacks>>

\* the observer a handler waits for returns, raises an Exception, or raises
\* another BaseException
CallbackDone(t, outcome) ==
    /\ tasks[t].pc = "callback"
    /\ LET step == callback_completed(Self, tasks[t], t, callbacks, outcome)
       IN  /\ tasks' = [tasks EXCEPT ![t] = step.task]
           /\ outbox' = outbox \o step.sent
    /\ UNCHANGED <<chain, pending_data, difficulty, op, result, tampered_at,
                   callbacks, shared_secrets, reassembler>>

\* p2p_node.send_message(ack, peer.id) completes; its result is not used
SendDone(t, success) ==
    /\ tasks[t].pc = "ack"
    /\ tasks' = [tasks EXCEPT ![t].pc = "done"]
    /\ UNCHANGED <<chain, pending_data, difficulty, op, result, tampered_at,
                   callbacks, shared_secrets, reassembler, outbox>>

NextEngine ==
    \/ /\ \E cb \in 1..MaxCallbacks : OnMessage(cb)
       /\ UNCHANGED <<outVars, netVars, utilVars>>
    \/ /\ \E m \in Messages, peer \in Peers : HandleIncoming(m, peer)
       /\ UNCHANGED <<outVars, netVars, utilVars>>
    \/ /\ \E t \in 1..MaxTasks,
             outcome \in {"return", "exception", "base_exception"} :
             CallbackDone(t, outcome)
       /\ UNCHANGED <<outVars, netVars, utilVars>>
    \/ /\ \E t \in 1..MaxTasks, success \in BOOLEAN : SendDone(t, success)
       /\ UNCHANGED <<outVars, netVars, utilVars>>

\* TransmissionEngine(wallet, p2p_node): the ledger is Blockchain(difficulty=2)
InitEngineSpec ==
    InitLedger({DefaultDifficulty}) /\ InitEngine /\ InitOut /\ NoNet
    /\ NoUtil

SpecEngine == InitEngineSpec /\ [][NextEngine]_vars

\* ------------------------------------------------------------- claims

\* C1: after any sequence of add_data and mine_pending calls on a fresh
\* ledger the chain is non-empty, the genesis block has index 0 and a
\* previous_hash of 64 zeros, every block's index is its position, every
\* later block links to its predecessor's hash, carries the recomputed hash
\* of its contents and meets the difficulty target; is_chain_valid() is true.
C1_ChainIntegrity ==
    /\ Len(chain) >= 1
    /\ chain[1].index = 0
    /\ Len(chain[1].previous_hash) = 64
    /\ \A k \in 1..64 : chain[1].previous_hash[k] = 0
    /\ \A i \in 1..Len(chain) : chain[i].index = i - 1
    /\ \A i \in 2..Len(chain) :
          /\ chain[i].previous_hash = chain[i - 1].hash
          /\ chain[i].hash = calculate_hash(chain[i])
          /\ \A k \in 1..difficulty : chain[i].hash[k] = 0
    /\ is_chain_valid(chain, difficulty)

C1_Witness ==
    /\ Len(chain) >= 3
    /\ difficulty = MaxDifficulty
    /\ chain[2].nonce > 0
    /\ chain[3].nonce > 0

\* C2: changing the data or the previous_hash of any stored block, the
\* genesis block included, makes is_chain_valid() return false.
C2_TamperDetected ==
    tampered_at >= 0 => ~is_chain_valid(chain, difficulty)

\* what the code does detect: a change to a block after the genesis block
TamperAfterGenesisDetected ==
    tampered_at >= 1 => ~is_chain_valid(chain, difficulty)

\* C3: a fresh Blockchain(difficulty=d) has exactly one block, the genesis
\* block (index 0, previous_hash of 64 zeros), an empty pending buffer, is
\* valid, and the genesis hash is the recomputed hash of its contents and
\* starts with d zeros.
C3_FreshLedger ==
    op = "init" =>
        /\ Len(chain) = 1
        /\ chain[1].index = 0
        /\ chain[1].previous_hash = [k \in 1..64 |-> 0]
        /\ chain[1].data = GenesisData
        /\ pending_data = <<>>
        /\ is_chain_valid(chain, difficulty)
        /\ chain[1].hash = calculate_hash(chain[1])
        /\ \A k \in 1..difficulty : chain[1].hash[k] = 0

C3_Witness ==
    /\ op = "init"
    /\ difficulty = MaxDifficulty
    /\ chain[1].nonce > 0

\* C4: mine_pending() on an empty pending buffer returns None and leaves
\* chain, pending buffer and difficulty unchanged; so no block after the
\* genesis block ever holds an empty payload list.
C4_NoEmptyBlock ==
    /\ [][(op' = "mine_pending" /\ pending_data = <<>>) =>
            (result' = <<>> /\ UNCHANGED <<chain, pending_data, difficulty>>)]_vars
    /\ [](\A i \in 2..Len(chain) : Len(chain[i].data.messages) >= 1)

C4_Witness ==
    /\ op = "mine_pending"
    /\ result = <<>>
    /\ Len(chain) >= 2

\* C5: mine_pending() on n >= 1 pending payloads (add_data appends each at
\* the end of the buffer) grows the chain by exactly one block, which holds
\* exactly the pending payloads in their order and links to the former last
\* block; that block is returned and the pending buffer is empty.
C5_MineDrainsPending ==
    /\ [][op' = "add_data" =>
            /\ Len(pending_data') = Len(pending_data) + 1
            /\ SubSeq(pending_data', 1, Len(pending_data)) = pending_data]_vars
    /\ [][(op' = "mine_pending" /\ pending_data # <<>>) =>
            /\ Len(chain') = Len(chain) + 1
            /\ SubSeq(chain', 1, Len(chain)) = chain
            /\ chain'[Len(chain')].data = [messages |-> pending_data]
            /\ chain'[Len(chain')].previous_hash = chain[Len(chain)].hash
            /\ result' = <<chain'[Len(chain')]>>
            /\ pending_data' = <<>>]_vars

C5_Witness ==
    /\ op = "mine_pending"
    /\ Len(result) = 1
    /\ Len(chain) >= 3
    /\ Len(chain[Len(chain)].data.messages) = 2
    /\ chain[Len(chain)].data.messages[1] # chain[Len(chain)].data.messages[2]

\* ---------------------------------------------- claims about the engine
TaskIds == 1..MaxTasks
Log(t) == tasks[t].log
HasEvent(t, ev) == \E k \in DOMAIN Log(t) : Log(t)[k].ev = ev
Finished(t, how) ==
    \E k \in DOMAIN Log(t) : Log(t)[k].ev = "observer_done" /\ Log(t)[k].info = how
AcksOf(t) == {k \in DOMAIN outbox : outbox[k].task = t}
EntryOf(t) ==
    [type |-> "received", id |-> tasks[t].received[1].id,
     sender |-> tasks[t].received[1].sender,
     timestamp |-> tasks[t].received[1].timestamp]
Recorded(t) == \E k \in DOMAIN pending_data : pending_data[k] = EntryOf(t)

\* C6: every ReceivedMessage handed to an observer names as sender the
\* holder of the public signing key its signature was verified with.
C6_SenderHoldsVerifyingKey ==
    \A t \in TaskIds : \A k \in DOMAIN Log(t) :
        Log(t)[k].ev = "observer" =>
            Log(t)[k].arg[1].sender = AddressOf(tasks[t].key)

\* C7: an inbound message of any type whose origin peer has no known public
\* signing key, or whose signature does not verify, is dropped with no
\* effect (no observer, no ReceivedMessage, no ledger entry, no ack,
\* reassembler and secret cache unchanged, no exception); every
\* ReceivedMessage an observer gets has verified = true.
C7_UnverifiedDropped ==
    /\ [](\A t \in TaskIds :
            (tasks[t].pc # "idle" /\ ~(tasks[t].keyknown /\ tasks[t].sigok)) =>
                /\ tasks[t].pc = "done"
                /\ tasks[t].log = <<>>
                /\ tasks[t].received = <<>>
                /\ AcksOf(t) = {})
    /\ [](\A t \in TaskIds : \A k \in DOMAIN Log(t) :
            Log(t)[k].ev = "observer" => Log(t)[k].arg[1].verified)
    /\ [][\A t \in TaskIds :
            (tasks[t].pc = "idle" /\ tasks'[t].pc # "idle"
             /\ ~(tasks'[t].keyknown /\ tasks'[t].sigok)) =>
                UNCHANGED <<chain, pending_data, outbox, reassembler,
                            shared_secrets, callbacks>>]_vars

C7_Witness ==
    \E t, u \in TaskIds :
        /\ tasks[t].pc = "done" /\ ~tasks[t].keyknown
        /\ tasks[u].pc = "done" /\ tasks[u].keyknown /\ ~tasks[u].sigok
        /\ tasks[u].mtype = "TEXT"

\* C8: for an accepted inbound TEXT message the steps come in this order:
\* the signature is verified, the 'received' entry is appended, the
\* registered observers are invoked one after another in registration
\* order, and the acknowledgment is sent only after the last of them has
\* returned or failed.
C8_StepsInOrder ==
    \A t \in TaskIds : \A k \in DOMAIN Log(t) :
        LET L == Log(t) IN
        /\ tasks[t].sigok
        /\ L[k].ev = "verified" => k = 1
        /\ L[k].ev = "ledger" => (k = 2 /\ L[1].ev = "verified" /\ Recorded(t))
        /\ L[k].ev = "observer" =>
              /\ k >= 3 /\ L[2].ev = "ledger"
              /\ k > 3 => L[k - 1].ev = "observer_done"
              /\ L[k].cb = callbacks[(k - 1) \div 2]
        /\ L[k].ev = "observer_done" =>
              (L[k - 1].ev = "observer" /\ L[k - 1].cb = L[k].cb)
        /\ L[k].ev = "ack" =>
              /\ k = Len(L) /\ k >= 3 /\ L[2].ev = "ledger"
              /\ L[k - 1].ev \in {"ledger", "observer_done"}
              /\ k - 3 = 2 * L[k].n
        /\ Cardinality(AcksOf(t)) = (IF HasEvent(t, "ack") THEN 1 ELSE 0)
        /\ (tasks[t].pc = "callback") = (L[Len(L)].ev = "observer")

C8_Witness ==
    \E t \in TaskIds :
        /\ tasks[t].pc = "done"
        /\ Len(Log(t)) = 7
        /\ Log(t)[7].ev = "ack"

\* C9: when an observer raises, every observer registered after it is still
\* invoked with the same ReceivedMessage, the 'received' entry stays, exactly
\* one acknowledgment is sent, and no exception leaves _handle_incoming.
C9_ObserverFailureIsolated ==
    \A t \in TaskIds :
        (\E k \in DOMAIN Log(t) :
            Log(t)[k].ev = "observer_done" /\ Log(t)[k].info # "return") =>
            /\ tasks[t].pc # "raised"
            /\ tasks[t].pc = "done" =>
                  (HasEvent(t, "ack") /\ Cardinality(AcksOf(t)) = 1 /\ Recorded(t))

\* C9 as amended: an observer that raises an Exception is isolated: the next
\* registered observer is invoked with the same ReceivedMessage, or, after the
\* last one, the acknowledgment is sent; the 'received' entry stays, and a
\* handler in which no observer raised anything but Exceptions sends exactly
\* one acknowledgment and returns.  Only an exception outside Exception leaves
\* _handle_incoming.
C9_ExceptionIsolated ==
    \A t \in TaskIds :
        LET L == Log(t) IN
        /\ \A k \in DOMAIN L :
              (L[k].ev = "observer_done" /\ L[k].info = "exception") =>
                  /\ k < Len(L)
                  /\ L[k + 1].ev \in {"observer", "ack"}
                  /\ L[k + 1].ev = "observer" =>
                        /\ L[k + 1].arg = tasks[t].received
                        /\ L[k + 1].cb = callbacks[k \div 2]
                  /\ L[k + 1].ev = "ack" => L[k + 1].n = (k \div 2) - 1
                  /\ Recorded(t)
        /\ tasks[t].pc = "raised" =>
              (L[Len(L)].ev = "observer_done" /\ L[Len(L)].info = "base_exception")
        /\ (Finished(t, "exception") /\ ~Finished(t, "base_exception")) =>
              /\ tasks[t].pc \in {"callback", "ack", "done"}
              /\ tasks[t].pc \in {"ack", "done"} =>
                    (HasEvent(t, "ack") /\ Cardinality(AcksOf(t)) = 1)

C9_Witness ==
    \E t \in TaskIds :
        /\ tasks[t].pc = "done"
        /\ Len(Log(t)) = 7
        /\ Log(t)[4].info = "exception"
        /\ Log(t)[5].ev = "observer"
        /\ Log(t)[7].ev = "ack"

\* C10: a verified inbound TEXT message whose decryption fails, or whose
\* content cannot be decoded as text, is dropped: no ReceivedMessage reaches
\* an observer, no 'received' entry is added, no acknowledgment is sent, and
\* the handler returns without an exception.
C10_UndecodableDropped ==
    /\ [](\A t \in TaskIds :
            (tasks[t].mtype = "TEXT" /\ tasks[t].sigok
             /\ (tasks[t].decrypt_fails \/ tasks[t].decode_fails)) =>
                /\ tasks[t].pc = "done"
                /\ tasks[t].received = <<>>
                /\ ~HasEvent(t, "ledger")
                /\ ~HasEvent(t, "observer")
                /\ ~HasEvent(t, "ack")
                /\ AcksOf(t) = {})
    /\ [][\A t \in TaskIds :
            (tasks[t].pc = "idle" /\ tasks'[t].pc # "idle"
             /\ (tasks'[t].decrypt_fails \/ tasks'[t].decode_fails)) =>
                UNCHANGED <<chain, pending_data, outbox>>]_vars

C10_Witness ==
    \E t, u \in TaskIds :
        /\ tasks[t].pc = "done" /\ tasks[t].decrypt_fails
        /\ tasks[u].pc = "done" /\ tasks[u].decode_fails

\* ----------------------------------------------------- the outbound path
\* text.encode()
encode(text) == Plain(text)

\* encrypt_message(content, shared_secret), whose fresh nonce is nonce
encrypt_message(content, secret, nonce) ==
    Cipher(content.body, secret, nonce, FALSE)

message_entry_with_content(message) ==
    [type |-> "message", id |-> message.id, sender |-> message.sender,
     recipient |-> message.recipient, timestamp |-> message.timestamp,
     content |-> message.content]

\* the 'message' and 'broadcast' ledger entries
message_entry(message) ==
    [type |-> "message", id |-> message.id, sender |-> message.sender,
     recipient |-> message.recipient, timestamp |-> message.timestamp]

broadcast_entry(message) ==
    [type |-> "broadcast", id |-> message.id, sender |-> message.sender,
     timestamp |-> message.timestamp]

NotSent(cache) ==
    [returned |-> <<FALSE>>, cache |-> cache, derived |-> <<>>,
     message |-> <<>>, entries |-> <<>>, steps |-> <<"lookup">>]

send_text_unknown_recorded(self, found, recipient_id, text, encrypt, cache, id, nonce) ==
    LET peer == IF found = <<>>
                THEN [id |-> recipient_id, public_key |-> None,
                      encryption_key |-> None]
                ELSE found[1]
        attempt == encrypt /\ peer.encryption_key # None
        g == IF attempt THEN get_shared_secret(self, peer, cache)
             ELSE [secret |-> {}, cache |-> cache, derived |-> <<>>]
        sealed == attempt /\ g.secret # {}
        message ==
            signed_by(create(id, "TEXT", AddressOf(self), recipient_id,
                             IF sealed
                             THEN encrypt_message(encode(text), g.secret, nonce)
                             ELSE encode(text),
                             IF sealed THEN nonce ELSE None, self),
                      self)
    IN  [returned |-> IF found = <<>> THEN <<FALSE>> ELSE <<>>,
         cache |-> g.cache, derived |-> g.derived,
         message |-> IF found = <<>> THEN <<>> ELSE <<message>>,
         entries |-> <<message_entry(message)>>,
         steps |-> <<"lookup">>
                   \o (IF sealed THEN <<"encrypt">> ELSE <<>>)
                   \o <<"sign", "ledger", "dispatch">>]

send_text_ignores_flag(self, found, recipient_id, text, encrypt, cache, id, nonce) ==
    IF found = <<>> THEN NotSent(cache)
    ELSE LET peer == found[1]
             attempt == peer.encryption_key # None
             g == IF attempt THEN get_shared_secret(self, peer, cache)
                  ELSE [secret |-> {}, cache |-> cache, derived |-> <<>>]
             sealed == attempt /\ g.secret # {}
             message ==
                 signed_by(create(id, "TEXT", AddressOf(self), recipient_id,
                                  IF sealed
                                  THEN encrypt_message(encode(text), g.secret,
                                                       nonce)
                                  ELSE encode(text),
                                  IF sealed THEN nonce ELSE None, self),
                           self)
         IN  [returned |-> <<>>, cache |-> g.cache, derived |-> g.derived,
              message |-> <<message>>,
              entries |-> <<message_entry(message)>>,
              steps |-> <<"lookup">>
                        \o (IF sealed THEN <<"encrypt">> ELSE <<>>)
                        \o <<"sign", "ledger", "dispatch">>]

send_text_signs_plaintext(self, found, recipient_id, text, encrypt, cache, id, nonce) ==
    IF found = <<>> THEN NotSent(cache)
    ELSE LET peer == found[1]
             attempt == encrypt /\ peer.encryption_key # None
             g == IF attempt THEN get_shared_secret(self, peer, cache)
                  ELSE [secret |-> {}, cache |-> cache, derived |-> <<>>]
             sealed == attempt /\ g.secret # {}
             clear == signed_by(create(id, "TEXT", AddressOf(self),
                                       recipient_id, encode(text), None, self),
                                self)
             message ==
                 IF sealed
                 THEN [clear EXCEPT
                          !.content = encrypt_message(encode(text), g.secret,
                                                      nonce),
                          !.nonce = nonce]
                 ELSE clear
         IN  [returned |-> <<>>, cache |-> g.cache, derived |-> g.derived,
              message |-> <<message>>,
              entries |-> <<message_entry(message)>>,
              steps |-> <<"lookup", "sign">>
                        \o (IF sealed THEN <<"encrypt">> ELSE <<>>)
                        \o <<"ledger", "dispatch">>]

\* TransmissionEngine.send_text up to its suspension in send_message; found
\* is what p2p_node.get_peer returned (<<>> is None), id the id and nonce the
\* nonce drawn for this message.  steps lists what was done, in order.
send_text(self, found, recipient_id, text, encrypt, cache, id, nonce) ==
    IF found = <<>> THEN NotSent(cache)
    ELSE LET peer == found[1]
             attempt == encrypt /\ peer.encryption_key # None
             g == IF attempt THEN get_shared_secret(self, peer, cache)
                  ELSE [secret |-> {}, cache |-> cache, derived |-> <<>>]
             sealed == attempt /\ g.secret # {}
             message ==
                 signed_by(create(id, "TEXT", AddressOf(self), recipient_id,
                                  IF sealed
                                  THEN encrypt_message(encode(text), g.secret,
                                                       nonce)
                                  ELSE encode(text),
                                  IF sealed THEN nonce ELSE None, self),
                           self)
         IN  [returned |-> <<>>, cache |-> g.cache, derived |-> g.derived,
              message |-> <<message>>,
              entries |-> <<message_entry(message)>>,
              steps |-> <<"lookup">>
                        \o (IF sealed THEN <<"encrypt">> ELSE <<>>)
                        \o <<"sign", "ledger", "dispatch">>]

broadcast_text_as_message(self, text, cache, id) ==
    LET message == signed_by(create(id, "TEXT", AddressOf(self), "*",
                                    encode(text), None, self), self)
    IN  [returned |-> <<>>, cache |-> cache, derived |-> <<>>,
         message |-> <<message>>,
         entries |-> <<message_entry(message)>>,
         steps |-> <<"sign", "ledger", "dispatch">>]

\* TransmissionEngine.broadcast_text up to its suspension in broadcast
broadcast_text(self, text, cache, id) ==
    LET message == signed_by(create(id, "TEXT", AddressOf(self), "*",
                                    encode(text), None, self), self)
    IN  [returned |-> <<>>, cache |-> cache, derived |-> <<>>,
         message |-> <<message>>,
         entries |-> <<broadcast_entry(message)>>,
         steps |-> <<"sign", "ledger", "dispatch">>]

dispatched_rollback(task, pending, outcome) ==
    [task |-> [task EXCEPT !.pc = "done", !.returned = <<outcome>>],
     pending_data |->
         IF task.kind = "send_text" /\ ~outcome
         THEN SelectSeq(pending, LAMBDA e : e # task.entry[1])
         ELSE pending]

dispatched_then_recorded(task, pending, outcome) ==
    [task |-> [task EXCEPT !.pc = "done", !.returned = <<outcome>>],
     pending_data |-> Append(pending, [task.entry[1] EXCEPT !.type = "sent"])]

\* the awaited send_message or broadcast returns outcome: the call returns it
dispatched(task, pending, outcome) ==
    [task |-> [task EXCEPT !.pc = "done", !.returned = <<outcome>>],
     pending_data |-> pending]

\* ------------------------------------------- what the callers can ask for
SendIds == 1..MaxSends
Texts == {"hi"}
Recipients == {"alice", "mallory", "carol"}

\* the id and the nonce drawn for the message of the s-th outbound call
NewId(s) == MaxMsgIds + s
NewNonce(s) == IF s = 1 THEN "n1" ELSE "n2"

\* what p2p_node.get_peer(recipient_id) can return: alice is connected, with
\* her encryption key, with a renewed one, or without one; mallory advertises
\* no encryption key; carol is unknown
Directory(recipient_id) ==
    IF recipient_id = "alice"
    THEN { <<[id |-> "alice", public_key |-> "alice",
              encryption_key |-> k]>> : k \in {"alice", "alice2", None} }
    ELSE IF recipient_id = "mallory"
    THEN { <<[id |-> "mallory", public_key |-> "mallory",
              encryption_key |-> None]>> }
    ELSE { <<>> }

\* the number of peers p2p_node.broadcast can report
Reached == 0..MaxReached

\* inbound traffic while sending: alice's text, encrypted for this engine or
\* in clear, from the connection to alice
InboundSample ==
    { Signed(Unsigned(1, "TEXT", "alice", b[1], b[2], <<>>), "alice", TRUE) :
        b \in { <<Cipher("hi", derive_shared_secret(Self, "alice"), "n1",
                         FALSE), "n1">>,
                <<Plain("hi"), None>> } }

\* the kinds of suspension point at which the inbound handlers ts and the
\* outbound calls ss wait
Waiting(ts, ss) ==
    {"observer" : t \in {u \in ts : tasks[u].pc = "callback"}}
    \cup {"dispatch" : t \in {u \in ts : tasks[u].pc = "ack"}}
    \cup {"dispatch" : u \in {v \in ss : sends[v].pc = "dispatch"}}

\* ------------------------------------------------------ outbound actions
StartSend(s, r, kind, recipient_id, text, encrypt, found) ==
    /\ sends[s].pc = "idle"
    /\ \A u \in 1..(s - 1) : sends[u].pc # "idle"
    /\ sends' = [sends EXCEPT ![s] =
                    [IdleSend EXCEPT
                        !.pc = IF r.returned = <<>> THEN "dispatch" ELSE "done",
                        !.kind = kind, !.recipient_id = recipient_id,
                        !.text = text, !.encrypt = encrypt, !.found = found,
                        !.message = r.message, !.entry = r.entries,
                        !.returned = r.returned, !.steps = r.steps]]
    /\ pending_data' = IF r.entries = <<>> THEN pending_data
                       ELSE add_data(pending_data, r.entries[1])
    /\ shared_secrets' = r.cache
    /\ derived' = derived \o r.derived
    /\ op' = IF r.entries = <<>> THEN op ELSE "add_data"
    /\ result' = IF r.entries = <<>> THEN result ELSE <<>>
    /\ interleaved' = interleaved \cup Waiting(1..MaxTasks, SendIds \ {s})
    /\ UNCHANGED <<chain, difficulty, tampered_at, callbacks, reassembler,
                   outbox, tasks, netVars, utilVars>>

\* send_text(recipient_id, text, encrypt) is called and runs to its dispatch,
\* or returns at once
SendText(s, recipient_id, text, encrypt, found) ==
    StartSend(s, send_text(Self, found, recipient_id, text, encrypt,
                           shared_secrets, NewId(s), NewNonce(s)),
              "send_text", recipient_id, text, encrypt, found)

\* broadcast_text(text) is called and runs to its dispatch
BroadcastText(s, text) ==
    StartSend(s, broadcast_text(Self, text, shared_secrets, NewId(s)),
              "broadcast_text", "*", text, FALSE, <<>>)

\* the transport reports the outcome of the dispatch (whether send_message
\* succeeded, how many peers broadcast reached) and the call returns it
DispatchDone(s, kind, outcome) ==
    /\ sends[s].pc = "dispatch"
    /\ sends[s].kind = kind
    /\ LET r == dispatched(sends[s], pending_data, outcome)
       IN  /\ sends' = [sends EXCEPT ![s] =
                           [r.task EXCEPT !.reported = <<outcome>>]]
           /\ pending_data' = r.pending_data
    /\ interleaved' = interleaved \cup Waiting(1..MaxTasks, SendIds \ {s})
    /\ UNCHANGED <<chain, difficulty, op, result, tampered_at, engineVars,
                   derived, netVars, utilVars>>

\* on_message while calls are in flight
Register(cb) ==
    /\ OnMessage(cb)
    /\ UNCHANGED <<outVars, netVars, utilVars>>

\* _handle_incoming while calls are in flight
Incoming(m, peer) ==
    /\ \E t \in 1..MaxInbound : t <= MaxTasks /\ tasks[t].pc = "idle"
    /\ HandleIncoming(m, peer)
    /\ LET keyknown == peer.public_key # None
           verified == keyknown /\ verify_signature(get_signable_content(m),
                                                    m.signature, peer.public_key)
           asks == verified /\ m.type = "TEXT" /\ m.nonce # None
                   /\ peer.encryption_key # None
       IN  derived' = derived \o
               (IF asks
                THEN get_shared_secret(Self, peer, shared_secrets).derived
                ELSE <<>>)
    /\ interleaved' = interleaved \cup
           Waiting({t \in 1..MaxTasks : tasks[t].pc # "idle"}, SendIds)
    /\ UNCHANGED <<sends, netVars, utilVars>>

\* an awaited observer finishes while calls are in flight
ObserverDone(t, outcome) ==
    /\ CallbackDone(t, outcome)
    /\ interleaved' = interleaved \cup Waiting((1..MaxTasks) \ {t}, SendIds)
    /\ UNCHANGED <<sends, derived, netVars, utilVars>>

\* the dispatch of an acknowledgment completes while calls are in flight
AckDispatched(t, success) ==
    /\ SendDone(t, success)
    /\ interleaved' = interleaved \cup Waiting((1..MaxTasks) \ {t}, SendIds)
    /\ UNCHANGED <<sends, derived, netVars, utilVars>>

NextSend ==
    \/ \E s \in SendIds, recipient_id \in Recipients, text \in Texts,
          encrypt \in BOOLEAN :
          \E found \in Directory(recipient_id) :
              SendText(s, recipient_id, text, encrypt, found)
    \/ \E s \in SendIds, text \in Texts : BroadcastText(s, text)
    \/ \E s \in SendIds, success \in BOOLEAN :
          DispatchDone(s, "send_text", success)
    \/ \E s \in SendIds, n \in Reached :
          DispatchDone(s, "broadcast_text", n)
    \/ \E ts \in Times : MinePending(ts)

\* outbound calls and the mining of the ledger
SpecSend == InitEngineSpec /\ [][NextSend]_vars

NextMixed ==
    \/ \E s \in SendIds, text \in Texts, encrypt \in BOOLEAN :
          \E found \in Directory("alice") :
              SendText(s, "alice", text, encrypt, found)
    \/ \E s \in SendIds, text \in Texts : BroadcastText(s, text)
    \/ \E s \in SendIds, success \in BOOLEAN :
          DispatchDone(s, "send_text", success)
    \/ \E s \in SendIds, n \in Reached :
          DispatchDone(s, "broadcast_text", n)
    \/ \E cb \in 1..MaxCallbacks : Register(cb)
    \/ \E m \in InboundSample, found \in Directory("alice") :
          Incoming(m, found[1])
    \/ \E t \in 1..MaxTasks,
          outcome \in {"return", "exception", "base_exception"} :
          ObserverDone(t, outcome)
    \/ \E t \in 1..MaxTasks : AckDispatched(t, TRUE)

\* outbound calls, inbound handlers and registrations, interleaved
SpecMixed == InitEngineSpec /\ [][NextMixed]_vars

\* the peer alice as the directory knows her, encryption key included
KnownAlice ==
    [id |-> "alice", public_key |-> "alice", encryption_key |-> "alice"]

NextAppend ==
    \/ \E s \in SendIds, text \in Texts :
          SendText(s, "alice", text, TRUE, <<KnownAlice>>)
    \/ \E s \in SendIds, text \in Texts : BroadcastText(s, text)
    \/ \E s \in SendIds, success \in BOOLEAN :
          DispatchDone(s, "send_text", success)
    \/ \E s \in SendIds, n \in Reached :
          DispatchDone(s, "broadcast_text", n)
    \/ \E m \in InboundSample : Incoming(m, KnownAlice)
    \/ \E t \in 1..MaxTasks : AckDispatched(t, TRUE)
    \/ \E ts \in Times : MinePending(ts)

\* every operation of one engine that touches the ledger, interleaved
SpecAppend == InitEngineSpec /\ [][NextAppend]_vars

\* ---------------------------------------- claims about the outbound path
\* the payloads of the ledger, mined and pending, oldest first
LedgerEntries == get_messages(chain) \o pending_data
Count(q, e) == Cardinality({k \in DOMAIN q : q[k] = e})
Started(s, kind) == sends[s].pc # "idle" /\ sends[s].kind = kind
Starts(s, kind) ==
    sends[s].pc = "idle" /\ sends'[s].pc # "idle" /\ sends'[s].kind = kind
Position(q, x) == CHOOSE k \in DOMAIN q : q[k] = x

\* the ledger entry send_text owes for the call s, from the call's arguments
OwedMessageEntry(s) ==
    [type |-> "message", id |-> NewId(s), sender |-> Self,
     recipient |-> sends[s].recipient_id, timestamp |-> 0]

OwedBroadcastEntry(s) ==
    [type |-> "broadcast", id |-> NewId(s), sender |-> Self, timestamp |-> 0]

\* C13: send_text to a recipient the peer directory does not know returns
\* false and has no other effect: no message is built or dispatched, no
\* ledger entry is added, the shared-secret cache is unchanged.
C13_UnknownRecipient ==
    [][\A s \in SendIds :
          (Starts(s, "send_text") /\ sends'[s].found = <<>>) =>
              /\ sends'[s].pc = "done"
              /\ sends'[s].returned = <<FALSE>>
              /\ sends'[s].message = <<>>
              /\ sends'[s].entry = <<>>
              /\ \A u \in SendIds \ {s} : sends'[u] = sends[u]
              /\ UNCHANGED <<chain, pending_data, shared_secrets, derived,
                             outbox, callbacks, reassembler, tasks>>]_vars

C13_Witness ==
    \E s, u \in SendIds :
        /\ Started(s, "send_text") /\ sends[s].found = <<>>
        /\ sends[s].encrypt
        /\ sends[u].pc = "dispatch"
        /\ shared_secrets # {}
        /\ pending_data # <<>>

\* C14: every send_text to a known recipient appends exactly one 'message'
\* entry to the pending buffer before the message is handed to the peer
\* directory; the entry stays in the ledger when the dispatch fails, and a
\* mine_pending issued while the dispatch is suspended mines it.
C14_EntryBeforeDispatch ==
    /\ [][\A s \in SendIds :
            (Starts(s, "send_text") /\ sends'[s].found # <<>>) =>
                /\ pending_data' = Append(pending_data, OwedMessageEntry(s)')
                /\ chain' = chain
                /\ sends'[s].pc = "dispatch"
                /\ Position(sends'[s].steps, "ledger")
                      < Position(sends'[s].steps, "dispatch")]_vars
    /\ [](\A s \in SendIds :
            (Started(s, "send_text") /\ sends[s].found # <<>>) =>
                Count(LedgerEntries, OwedMessageEntry(s)) = 1)
    /\ [][\A s \in SendIds :
            (Started(s, "send_text") /\ sends[s].pc = "dispatch"
             /\ sends'[s].pc = "done") =>
                /\ sends'[s].returned = sends'[s].reported
                /\ UNCHANGED <<chain, pending_data>>]_vars
    /\ [][\A s \in SendIds :
            (Started(s, "send_text") /\ sends[s].pc = "dispatch"
             /\ Count(pending_data, OwedMessageEntry(s)) = 1
             /\ op' = "mine_pending" /\ chain' # chain) =>
                /\ Len(chain') = Len(chain) + 1
                /\ Count(chain'[Len(chain')].data.messages,
                         OwedMessageEntry(s)) = 1]_vars

C14_Witness ==
    \E s, u \in SendIds :
        /\ Started(s, "send_text") /\ sends[s].pc = "dispatch"
        /\ Count(get_messages(chain), OwedMessageEntry(s)) = 1
        /\ Started(u, "send_text") /\ sends[u].found # <<>>
        /\ sends[u].returned = <<FALSE>>
        /\ Count(LedgerEntries, OwedMessageEntry(u)) = 1

\* C15: send_text encrypts exactly when encrypt is true and the recipient's
\* encryption key is known: then the dispatched content is the ciphertext of
\* the text under the shared secret the engine holds for that peer and a
\* nonce is attached; otherwise the content is the plain encoded text and the
\* nonce is absent.  The nonce is present iff the content is encrypted.
C15_EncryptsExactlyWhenAsked ==
    \A s \in SendIds :
        (Started(s, "send_text") /\ sends[s].found # <<>>) =>
            LET m == sends[s].message[1]
                peer == sends[s].found[1]
            IN  /\ (sends[s].encrypt /\ peer.encryption_key # None) =>
                      /\ m.content.enc
                      /\ m.content.body = sends[s].text
                      /\ Cached(shared_secrets, peer.id)
                      /\ m.content.key = Lookup(shared_secrets, peer.id)
                      /\ m.nonce # None
                      /\ m.nonce = m.content.nonce
                /\ ~(sends[s].encrypt /\ peer.encryption_key # None) =>
                      /\ m.content = encode(sends[s].text)
                      /\ m.nonce = None
                /\ (m.nonce # None) <=> m.content.enc

C15_Witness ==
    \E s, u \in SendIds :
        /\ Started(s, "send_text") /\ sends[s].found # <<>>
        /\ sends[s].message[1].content.enc
        /\ Started(u, "send_text") /\ sends[u].found # <<>>
        /\ sends[u].found[1].encryption_key # None
        /\ ~sends[u].encrypt
        /\ ~sends[u].message[1].content.enc

\* C16: every message dispatched by send_text or broadcast_text, encrypted or
\* not, carries the sender's signature over the signable content of the
\* message as dispatched: verification with the sender's public signing key
\* succeeds, and a receiver that knows this key accepts the signature.
C16_DispatchedIsSigned ==
    \A s \in SendIds :
        sends[s].message # <<>> =>
            LET m == sends[s].message[1]
                origin == [id |-> Self, public_key |-> Self,
                           encryption_key |-> None]
            IN  /\ m.signature.signer = Self
                /\ verify_signature(get_signable_content(m), m.signature, Self)
                /\ handle_incoming("alice", m, origin, {}, {}).outcome
                      \notin {"no_key", "bad_signature"}
                /\ Position(sends[s].steps, "sign")
                      < Position(sends[s].steps, "ledger")
                /\ "encrypt" \in {sends[s].steps[k] : k \in DOMAIN sends[s].steps}
                      => Position(sends[s].steps, "encrypt")
                             < Position(sends[s].steps, "sign")

C16_Witness ==
    \E s, u \in SendIds :
        /\ Started(s, "send_text") /\ sends[s].message # <<>>
        /\ sends[s].message[1].content.enc
        /\ Started(u, "broadcast_text") /\ sends[u].pc = "done"

\* C18: broadcast_text always dispatches an unencrypted, signed message with
\* the wildcard as recipient, leaves the shared-secret cache alone, appends
\* exactly one 'broadcast' entry before the dispatch, also when no peer is
\* reached, and returns the count the peer directory reports.
C18_BroadcastInClear ==
    /\ [][\A s \in SendIds :
            Starts(s, "broadcast_text") =>
                /\ pending_data' = Append(pending_data, OwedBroadcastEntry(s))
                /\ sends'[s].pc = "dispatch"
                /\ UNCHANGED <<chain, shared_secrets, derived>>]_vars
    /\ [](\A s \in SendIds :
            Started(s, "broadcast_text") =>
                LET m == sends[s].message[1] IN
                /\ m.content = encode(sends[s].text)
                /\ m.nonce = None
                /\ m.recipient = "*"
                /\ m.type = "TEXT"
                /\ verify_signature(get_signable_content(m), m.signature, Self)
                /\ Count(LedgerEntries, OwedBroadcastEntry(s)) = 1
                /\ Position(sends[s].steps, "ledger")
                      < Position(sends[s].steps, "dispatch")
                /\ sends[s].pc = "done" =>
                      sends[s].returned = sends[s].reported)

C18_Witness ==
    \E s, u \in SendIds :
        /\ Started(s, "broadcast_text") /\ sends[s].returned = <<0>>
        /\ Started(u, "broadcast_text") /\ sends[u].returned = <<MaxReached>>
        /\ Len(chain) >= 2

\* ------------------------------------------------ two engines and a wire
Names == {"alice", "bob"}
Other(e) == IF e = "alice" THEN "bob" ELSE "alice"
NetSlots == 1..MaxNetSends

\* the Peer each engine's directory holds for the other: signing key and
\* encryption key known
PeerOf(id) == [id |-> id, public_key |-> id, encryption_key |-> id]

\* the id drawn for the message of the s-th send_text of engine e
NetId(e, s) == (IF e = "alice" THEN 0 ELSE MaxNetSends) + s

\* TransmissionEngine.__init__ of one of the two engines; transmitted and
\* handled are the transport's record of what it took from and gave to it
NewEngine ==
    [pending |-> <<>>, cache |-> {}, callbacks |-> <<>>, reassembler |-> {},
     tasks |-> [t \in NetSlots |-> IdleTask],
     sends |-> [s \in NetSlots |-> IdleSend],
     outbox |-> <<>>, transmitted |-> {}, handled |-> <<>>]

InitNet ==
    /\ engines = [e \in Names |-> NewEngine]
    /\ wire = {}

InitNetSpec ==
    InitLedger({DefaultDifficulty}) /\ InitEngine /\ InitOut /\ InitNet
    /\ NoUtil

\* the handler of message m from peer at its start, r the outcome of
\* handle_incoming
Arrived(m, peer, r) ==
    [IdleTask EXCEPT
        !.pc = "done", !.mtype = m.type, !.keyknown = TRUE, !.sigok = TRUE,
        !.key = peer.public_key, !.peer_id = peer.id,
        !.nonce = m.nonce,
        !.decrypted = m.type = "TEXT" /\ m.nonce # None
                      /\ peer.encryption_key # None,
        !.message = IF m.type = "TEXT" THEN <<m>> ELSE <<>>,
        !.received = r.received,
        !.log = <<Event("verified", 0, "", <<>>, 0)>>
                \o (IF r.entries # <<>>
                    THEN <<Event("ledger", 0, "", <<>>, 0)>>
                    ELSE <<>>)]

\* the messages engine e has handed to p2p_node.send_message and whose
\* dispatch has not completed
Dispatching(e) ==
    {engines[e].sends[s].message[1] :
        s \in {u \in NetSlots : engines[e].sends[u].pc = "dispatch"}}
    \cup {engines[e].outbox[k].message :
            k \in {j \in DOMAIN engines[e].outbox :
                      engines[e].tasks[engines[e].outbox[j].task].pc = "ack"}}

UnchangedSingle ==
    UNCHANGED <<chain, pending_data, difficulty, op, result, tampered_at,
                engineVars, outVars, utilVars>>

\* on_message on engine e
NetRegister(e) ==
    /\ Len(engines[e].callbacks) < MaxCallbacks
    /\ engines' = [engines EXCEPT ![e].callbacks =
                      Append(@, Len(engines[e].callbacks) + 1)]
    /\ UNCHANGED wire
    /\ UnchangedSingle

\* engine e calls send_text(other, text, encrypt) and runs to its dispatch
NetSendText(e, s, text, encrypt) ==
    /\ engines[e].sends[s].pc = "idle"
    /\ \A u \in 1..(s - 1) : engines[e].sends[u].pc # "idle"
    /\ LET found == <<PeerOf(Other(e))>>
           r == send_text(e, found, Other(e), text, encrypt, engines[e].cache,
                          NetId(e, s), NewNonce(s))
       IN  engines' = [engines EXCEPT
              ![e].sends[s] =
                  [IdleSend EXCEPT
                      !.pc = IF r.returned = <<>> THEN "dispatch" ELSE "done",
                      !.kind = "send_text", !.recipient_id = Other(e),
                      !.text = text, !.encrypt = encrypt, !.found = found,
                      !.message = r.message, !.entry = r.entries,
                      !.returned = r.returned, !.steps = r.steps],
              ![e].pending = IF r.entries = <<>> THEN @
                             ELSE add_data(@, r.entries[1]),
              ![e].cache = r.cache]
    /\ UNCHANGED wire
    /\ UnchangedSingle

\* the transport puts a message engine e is dispatching on the wire
Transmit(e, m) ==
    /\ m \in Dispatching(e)
    /\ m.id \notin engines[e].transmitted
    /\ wire' = wire \cup {[message |-> m, from |-> e, to |-> m.recipient]}
    /\ engines' = [engines EXCEPT ![e].transmitted = @ \cup {m.id}]
    /\ UnchangedSingle

\* send_message returns whether the transport took the message, and
\* send_text returns that
NetDispatchDone(e, s) ==
    /\ engines[e].sends[s].pc = "dispatch"
    /\ LET success == engines[e].sends[s].message[1].id
                          \in engines[e].transmitted
           r == dispatched(engines[e].sends[s], engines[e].pending, success)
       IN  engines' = [engines EXCEPT
              ![e].sends[s] = [r.task EXCEPT !.reported = <<success>>],
              ![e].pending = r.pending_data]
    /\ UNCHANGED wire
    /\ UnchangedSingle

\* the transport gives a message on the wire to _handle_incoming of the
\* engine it is addressed to, which runs to its first suspension
Deliver(w) ==
    /\ w \in wire
    /\ LET e == w.to
           peer == PeerOf(w.from)
           r == handle_incoming(e, w.message, peer, engines[e].cache,
                                engines[e].reassembler)
           accepted == r.outcome = "accepted"
           t == CHOOSE u \in NetSlots \cup {0} :
                    \/ u = 0 /\ \A v \in NetSlots :
                                    engines[e].tasks[v].pc # "idle"
                    \/ /\ u # 0 /\ engines[e].tasks[u].pc = "idle"
                       /\ \A v \in 1..(u - 1) : engines[e].tasks[v].pc # "idle"
           step == IF accepted
                   THEN notify_or_ack(e, Arrived(w.message, peer, r), t,
                                      engines[e].callbacks, 1)
                   ELSE [task |-> IdleTask, sent |-> <<>>]
       IN  /\ accepted => t # 0
           /\ engines' = [engines EXCEPT
                  ![e].tasks = IF accepted THEN [@ EXCEPT ![t] = step.task]
                               ELSE @,
                  ![e].outbox = @ \o step.sent,
                  ![e].pending = IF r.entries = <<>> THEN @
                                 ELSE add_data(@, r.entries[1]),
                  ![e].cache = r.cache,
                  ![e].reassembler = r.reassembler,
                  ![e].handled = Append(@, [id |-> w.message.id,
                                            type |-> w.message.type,
                                            outcome |-> r.outcome])]
    /\ wire' = wire \ {w}
    /\ UnchangedSingle

\* an observer awaited by a handler of engine e finishes
NetObserverDone(e, t, outcome) ==
    /\ engines[e].tasks[t].pc = "callback"
    /\ LET step == callback_completed(e, engines[e].tasks[t], t,
                                      engines[e].callbacks, outcome)
       IN  engines' = [engines EXCEPT ![e].tasks[t] = step.task,
                                      ![e].outbox = @ \o step.sent]
    /\ UNCHANGED wire
    /\ UnchangedSingle

\* send_message(ack, peer.id) returns to the handler, which returns
NetAckDone(e, t) ==
    /\ engines[e].tasks[t].pc = "ack"
    /\ engines' = [engines EXCEPT ![e].tasks[t].pc = "done"]
    /\ UNCHANGED wire
    /\ UnchangedSingle

Transmits == \E e \in Names : \E m \in Dispatching(e) : Transmit(e, m)
DispatchCompletes == \E e \in Names, s \in NetSlots : NetDispatchDone(e, s)
Delivers == \E w \in wire : Deliver(w)
ObserversFinish ==
    \E e \in Names, t \in NetSlots,
       outcome \in {"return", "exception", "base_exception"} :
       NetObserverDone(e, t, outcome)
AcksComplete == \E e \in Names, t \in NetSlots : NetAckDone(e, t)

NextNet ==
    \/ \E e \in Names : NetRegister(e)
    \/ \E e \in Names, s \in NetSlots, text \in Texts, encrypt \in BOOLEAN :
          NetSendText(e, s, text, encrypt)
    \/ Transmits
    \/ DispatchCompletes
    \/ Delivers
    \/ ObserversFinish
    \/ AcksComplete

\* two engines that know each other, and a transport between them
SpecNet == InitNetSpec /\ [][NextNet]_vars

\* the same two engines, each with at most MaxFairCallbacks observers and
\* sending encrypted
NextNetFair ==
    \/ \E e \in Names : /\ Len(engines[e].callbacks) < MaxFairCallbacks
                        /\ NetRegister(e)
    \/ \E e \in Names, s \in NetSlots, text \in Texts :
          NetSendText(e, s, text, TRUE)
    \/ Transmits
    \/ DispatchCompletes
    \/ Delivers
    \/ ObserversFinish
    \/ AcksComplete

\* the event loop runs every handler that can continue, observers finish,
\* and the transport completes what it was handed
SpecNetFair ==
    /\ InitNetSpec /\ [][NextNetFair]_vars
    /\ WF_vars(DispatchCompletes)
    /\ WF_vars(Delivers)
    /\ WF_vars(ObserversFinish)
    /\ WF_vars(AcksComplete)

\* C17: no ledger entry recorded by the engine ('message', 'broadcast',
\* 'received') holds the message content, plain or encrypted: an entry has the
\* type, the message id, the sender, the timestamp and, for 'message', the
\* recipient, and nothing else.
C17_NoContentInLedger ==
    \A k \in DOMAIN LedgerEntries :
        LET e == LedgerEntries[k] IN
        /\ e.type \in {"message", "broadcast", "received"}
        /\ DOMAIN e = (IF e.type = "message"
                       THEN {"type", "id", "sender", "recipient", "timestamp"}
                       ELSE {"type", "id", "sender", "timestamp"})
        /\ e.id \in Nat
        /\ e.timestamp \in Nat
        /\ e.sender \in {Self} \cup PeerIds
        /\ e.type = "message" => e.recipient \in Recipients

C17_Witness ==
    /\ \E k \in DOMAIN pending_data : pending_data[k].type = "message"
    /\ \E k \in DOMAIN pending_data : pending_data[k].type = "broadcast"
    /\ \E k \in DOMAIN pending_data : pending_data[k].type = "received"
    /\ \E s \in SendIds : Started(s, "send_text") /\ sends[s].found # <<>>
                          /\ sends[s].message[1].content.enc

\* C19: the shared secret is memoized per peer id: the first
\* _get_shared_secret for a peer with an encryption key derives and caches
\* it, every later call for that peer id returns the cached value without
\* deriving again, also when the peer's encryption key has changed; under any
\* interleaving of sends and receives derive_shared_secret is invoked at most
\* once per peer id; for a peer without an encryption key the result is
\* absent and the cache is not modified.
C19_SecretMemoized ==
    /\ [](/\ \A e1, e2 \in shared_secrets : e1[1] = e2[1] => e1 = e2
          /\ \A i, j \in DOMAIN derived : derived[i] = derived[j] => i = j
          /\ {derived[i] : i \in DOMAIN derived}
                = {e[1] : e \in shared_secrets}
          /\ \A found \in Directory("alice") \cup Directory("mallory") :
                LET peer == found[1]
                    g == get_shared_secret(Self, peer, shared_secrets)
                IN  /\ peer.encryption_key = None =>
                          (g.secret = {} /\ g.cache = shared_secrets
                           /\ g.derived = <<>>)
                    /\ (peer.encryption_key # None
                        /\ Cached(shared_secrets, peer.id)) =>
                          (g.secret = Lookup(shared_secrets, peer.id)
                           /\ g.cache = shared_secrets /\ g.derived = <<>>)
                    /\ (peer.encryption_key # None
                        /\ ~Cached(shared_secrets, peer.id)) =>
                          (g.secret = derive_shared_secret(Self,
                                                           peer.encryption_key)
                           /\ g.cache = shared_secrets
                                  \cup {<<peer.id, g.secret>>}
                           /\ g.derived = <<peer.id>>))
    /\ [][/\ \A e \in shared_secrets : e \in shared_secrets'
          /\ \A i \in DOMAIN derived : i \in DOMAIN derived'
                                       /\ derived'[i] = derived[i]
          /\ Len(derived') <= Len(derived) + 1
          /\ (shared_secrets' # shared_secrets) <=> (derived' # derived)]_vars
    /\ [][\A s \in SendIds :
            (Starts(s, "send_text") /\ sends'[s].found # <<>>
             /\ sends'[s].encrypt) =>
                LET peer == sends'[s].found[1] IN
                /\ peer.encryption_key = None =>
                      UNCHANGED <<shared_secrets, derived>>
                /\ peer.encryption_key # None =>
                      /\ Cached(shared_secrets', peer.id)
                      /\ sends'[s].message[1].content.key
                            = Lookup(shared_secrets', peer.id)
                      /\ Cached(shared_secrets, peer.id) =>
                            UNCHANGED <<shared_secrets, derived>>
                      /\ ~Cached(shared_secrets, peer.id) =>
                            /\ derived' = Append(derived, peer.id)
                            /\ Lookup(shared_secrets', peer.id)
                                  = derive_shared_secret(Self,
                                        peer.encryption_key)]_vars

C19_Witness ==
    \E s \in SendIds :
        /\ Started(s, "send_text") /\ sends[s].found # <<>>
        /\ sends[s].found[1].encryption_key = "alice2"
        /\ sends[s].message[1].content.enc
        /\ sends[s].message[1].content.key
              = derive_shared_secret(Self, "alice")
        /\ tasks[1].received # <<>>
        /\ derived = <<"alice">>

\* C20: concurrent engine operations (send_text, broadcast_text, inbound
\* handling) interleave only at network dispatch suspension points and at no
\* other point, and no operation is suspended between reading and writing
\* the shared-secret cache, the observer list or the pending buffer.
C20_OnlyAtDispatch ==
    /\ [](interleaved \subseteq {"dispatch"})
    /\ [][/\ \A t \in 1..MaxTasks :
                (tasks[t].pc \in {"callback", "ack"} /\ tasks'[t] # tasks[t]) =>
                    UNCHANGED <<shared_secrets, callbacks, pending_data, chain>>
          /\ \A s \in SendIds :
                (sends[s].pc = "dispatch" /\ sends'[s] # sends[s]) =>
                    UNCHANGED <<shared_secrets, callbacks, pending_data,
                                chain>>]_vars

\* C20 as amended: concurrent engine operations interleave only where an
\* operation awaits: at the dispatch of a message (send_message, broadcast)
\* and at the call of each observer of an inbound TEXT message, and at no
\* other point; an operation that resumes after such a point writes neither
\* the shared-secret cache nor the observer list nor the pending buffer, so
\* none is suspended between reading and writing them.
C20_SuspensionPoints ==
    /\ [](/\ interleaved \subseteq {"dispatch", "observer"}
          /\ \A t \in 1..MaxTasks :
                tasks[t].pc \in {"idle", "callback", "ack", "done", "raised"}
          /\ \A s \in SendIds : sends[s].pc \in {"idle", "dispatch", "done"})
    /\ [][/\ \A t \in 1..MaxTasks :
                (tasks[t].pc \in {"callback", "ack"} /\ tasks'[t] # tasks[t]) =>
                    UNCHANGED <<shared_secrets, callbacks, pending_data, chain>>
          /\ \A s \in SendIds :
                (sends[s].pc = "dispatch" /\ sends'[s] # sends[s]) =>
                    UNCHANGED <<shared_secrets, callbacks, pending_data,
                                chain>>
          /\ \A t \in 1..MaxTasks :
                (tasks[t].pc = "idle" /\ tasks'[t].pc \in {"callback", "ack"}) =>
                    /\ tasks'[t].received # <<>>
                    /\ Len(pending_data') = Len(pending_data) + 1]_vars

C20_Witness ==
    /\ "observer" \in interleaved
    /\ "dispatch" \in interleaved
    /\ \E s \in SendIds : sends[s].pc = "dispatch"
    /\ tasks[1].pc = "callback"

\* ------------------------------------------------- claims on two engines
\* entries of type ty for message id in the pending buffer of engine e
EntriesFor(e, ty, id) ==
    {k \in DOMAIN engines[e].pending :
        engines[e].pending[k].type = ty /\ engines[e].pending[k].id = id}
\* acknowledgments of message id that engine e handed to send_message
AcksFor(e, id) ==
    {k \in DOMAIN engines[e].outbox :
        /\ engines[e].outbox[k].message.type = "ACK"
        /\ engines[e].outbox[k].message.content = Plain(ToString(id))}
\* deliveries of message id to engine e, with their outcome
HandledAs(e, id, outcome) ==
    {k \in DOMAIN engines[e].handled :
        engines[e].handled[k].id = id
        /\ engines[e].handled[k].outcome = outcome}
\* the handlers of engine e for message id
HandlersOf(e, id) ==
    {t \in NetSlots : engines[e].tasks[t].received # <<>>
                      /\ engines[e].tasks[t].received[1].id = id}
\* invocations of observer cb in the trace of handler t of engine e
Invocations(e, t, cb) ==
    {k \in DOMAIN engines[e].tasks[t].log :
        engines[e].tasks[t].log[k].ev = "observer"
        /\ engines[e].tasks[t].log[k].cb = cb}
\* the send_text s of engine e returned True, the other engine's handler of
\* its message returned
SentAndHandled(e, s) ==
    /\ engines[e].sends[s].pc = "done"
    /\ engines[e].sends[s].returned = <<TRUE>>
    /\ \E t \in HandlersOf(Other(e), NetId(e, s)) :
          engines[Other(e)].tasks[t].pc = "done"

\* C11: end to end, two engines that know each other's signing and
\* encryption keys and a transport that delivers: once a send_text(other,
\* "hi") has returned True and the other engine's handler of the message has
\* returned, every observer of the receiver registered by the end of the
\* handler's loop has received exactly one ReceivedMessage, with content "hi"
\* and verified true; the sender's ledger has gained exactly one 'message'
\* entry for the message, the receiver's exactly one 'received' entry; the
\* receiver has sent exactly one ACK, addressed to the sender; and the
\* sender's handling of that ACK sends nothing and records nothing.
C11_EndToEnd ==
    /\ [](\A e \in Names, s \in NetSlots :
            SentAndHandled(e, s) =>
                LET o == Other(e)
                    id == NetId(e, s)
                IN  /\ Cardinality(HandlersOf(o, id)) = 1
                    /\ \A t \in HandlersOf(o, id) :
                          LET task == engines[o].tasks[t]
                              log == task.log
                          IN  /\ task.received[1].content
                                    = engines[e].sends[s].text
                              /\ task.received[1].verified = TRUE
                              /\ task.received[1].sender = e
                              /\ log[Len(log)].ev = "ack"
                              /\ \A cb \in 1..log[Len(log)].n :
                                    /\ Cardinality(Invocations(o, t, cb)) = 1
                                    /\ \A k \in Invocations(o, t, cb) :
                                          log[k].arg = task.received
                              /\ \A cb \in 1..MaxCallbacks :
                                    Cardinality(Invocations(o, t, cb)) <= 1
                    /\ Cardinality(EntriesFor(e, "message", id)) = 1
                    /\ Cardinality(EntriesFor(o, "received", id)) = 1
                    /\ EntriesFor(o, "message", id) = {}
                    /\ EntriesFor(e, "received", id) = {}
                    /\ Cardinality(AcksFor(o, id)) = 1
                    /\ \A k \in AcksFor(o, id) :
                          /\ engines[o].outbox[k].to = e
                          /\ engines[o].outbox[k].message.recipient = e
                          /\ engines[o].outbox[k].message.sender = o
                          /\ verify_signature(
                                get_signable_content(
                                    engines[o].outbox[k].message),
                                engines[o].outbox[k].message.signature, o))
    /\ [][\A w \in wire :
            (w.message.type = "ACK" /\ w \notin wire') =>
                /\ wire' = wire \ {w}
                /\ engines'[w.to].pending = engines[w.to].pending
                /\ engines'[w.to].outbox = engines[w.to].outbox
                /\ engines'[w.to].tasks = engines[w.to].tasks
                /\ engines'[w.to].transmitted = engines[w.to].transmitted
                /\ engines'[w.from] = engines[w.from]]_vars

C11_Witness ==
    /\ SentAndHandled("alice", 1)
    /\ engines["alice"].sends[1].text = "hi"
    /\ engines["alice"].sends[1].message[1].content.enc
    /\ engines["bob"].sends[1].pc = "idle"
    /\ Len(engines["bob"].callbacks) = 2
    /\ engines["bob"].tasks[1].received[1].content = "hi"
    /\ Cardinality(Invocations("bob", 1, 2)) = 1
    /\ Len(engines["alice"].pending) = 1
    /\ Len(engines["bob"].pending) = 1
    /\ HandledAs("alice", AckId(NetId("alice", 1)), "ack") # {}
    /\ wire = {}

\* nothing in flight and no operation suspended
Quiescent ==
    /\ wire = {}
    /\ \A e \in Names, t \in NetSlots :
          engines[e].tasks[t].pc \notin {"callback", "ack"}
    /\ \A e \in Names, s \in NetSlots : engines[e].sends[s].pc # "dispatch"
AcksSent == Len(engines["alice"].outbox) + Len(engines["bob"].outbox)
AcceptedBy(e) ==
    Cardinality({k \in DOMAIN engines[e].handled :
                    engines[e].handled[k].outcome = "accepted"})
Accepted == AcceptedBy("alice") + AcceptedBy("bob")
RaisedIn(e) ==
    Cardinality({t \in NetSlots : engines[e].tasks[t].pc = "raised"})
Raised == RaisedIn("alice") + RaisedIn("bob")
\* the delivery of a verified ACK changes nothing but the wire it leaves
AckCausesNothing ==
    \A w \in wire :
        (w.message.type = "ACK" /\ w \notin wire') =>
            /\ wire' = wire \ {w}
            /\ engines' = [engines EXCEPT ![w.to].handled =
                              Append(@, [id |-> w.message.id, type |-> "ACK",
                                         outcome |-> "ack"])]
\* every acknowledgment acknowledges a TEXT message of the other engine
AcksOnlyTexts ==
    \A e \in Names : \A k \in DOMAIN engines[e].outbox :
        \E s \in NetSlots :
            /\ engines[e].outbox[k].message.id = AckId(NetId(Other(e), s))
            /\ engines[e].outbox[k].message.type = "ACK"

block_to_dict(b) ==
    [index |-> b.index, timestamp |-> b.timestamp, data |-> b.data,
     previous_hash |-> b.previous_hash, nonce |-> b.nonce, hash |-> b.hash]

block_from_dict_rehashed(data) ==
    LET block == [index |-> data.index, timestamp |-> data.timestamp,
                  data |-> data.data, previous_hash |-> data.previous_hash,
                  nonce |-> data.nonce, hash |-> <<>>]
    IN  [block EXCEPT !.hash = calculate_hash(block)]

\* Block.from_dict: the constructor computes the hash of the contents
\* (__post_init__), then the stored hash replaces it
block_from_dict(data) ==
    LET block == [index |-> data.index, timestamp |-> data.timestamp,
                  data |-> data.data, previous_hash |-> data.previous_hash,
                  nonce |-> data.nonce, hash |-> <<>>]
        constructed == [block EXCEPT !.hash = calculate_hash(block)]
    IN  [constructed EXCEPT !.hash = data.hash]

\* a Python list is held by reference; the only list these operations hand
\* on is the list object that is the pending buffer of the ledger under study
TheList(name) == [list |-> name]
\* the items of the list a reference leads to
ListAt(ref) == IF ref.list = "pending_data" THEN pending_data ELSE <<>>

\* Blockchain.to_dict: a new list of new block dicts, and the pending list
\* itself (pending is the reference self.pending_data holds)
to_dict(c, pending, d) ==
    [difficulty |-> d,
     chain |-> [i \in DOMAIN c |-> block_to_dict(c[i])],
     pending_data |-> pending]

\* Blockchain.from_dict: no constructor runs, so no genesis block is made;
\* the pending list is the document's list itself
from_dict(data) ==
    [difficulty |-> data.difficulty,
     chain |-> [i \in DOMAIN data.chain |-> block_from_dict(data.chain[i])],
     pending_data |-> data.pending_data]

\* the entries the two ledgers hold between them
DocEntries ==
    Entries + (IF loaded = <<>> THEN 0
               ELSE Len(get_messages(loaded[1].ledger.chain))
                    - Len(get_messages(document[1].chain_then)))

\* Blockchain.get_messages
GetMessages ==
    /\ result' = <<get_messages(chain)>>
    /\ op' = "get_messages"
    /\ UNCHANGED <<chain, pending_data, difficulty, tampered_at>>
    /\ UNCHANGED <<engineVars, outVars, netVars, utilVars>>

\* doc = ledger.to_dict(); chain_then and pending_then are the chain and the
\* items of the pending buffer at that moment
ToDict ==
    /\ document = <<>>
    /\ document' = <<[doc |-> to_dict(chain, TheList("pending_data"),
                                      difficulty),
                      chain_then |-> chain, pending_then |-> pending_data]>>
    /\ op' = "to_dict"
    /\ result' = <<>>
    /\ UNCHANGED <<chain, pending_data, difficulty, tampered_at>>
    /\ UNCHANGED <<engineVars, outVars, netVars, data_list, mining, loaded>>

\* other = Blockchain.from_dict(doc); pending_then and original_then are the
\* items of its pending buffer and of the original's at that moment
FromDict ==
    /\ document # <<>>
    /\ loaded = <<>>
    /\ loaded' = <<[ledger |-> from_dict(document[1].doc),
                    pending_then |-> ListAt(document[1].doc.pending_data),
                    own |-> <<>>]>>
    /\ op' = "from_dict"
    /\ result' = <<>>
    /\ UNCHANGED <<chain, pending_data, difficulty, tampered_at>>
    /\ UNCHANGED <<engineVars, outVars, netVars, data_list, mining, document>>

\* other.add_data(data): appends to the list other.pending_data refers to
LoadedAddData(data) ==
    /\ loaded # <<>>
    /\ Len(loaded[1].own) < MaxLoadedAdds
    /\ DocEntries < MaxEntries
    /\ LET ref == loaded[1].ledger.pending_data
       IN  /\ ref.list = "pending_data"
           /\ pending_data' = add_data(ListAt(ref), data)
    /\ loaded' = <<[loaded[1] EXCEPT !.own = Append(@, data)]>>
    /\ op' = "other.add_data"
    /\ result' = <<>>
    /\ UNCHANGED <<chain, difficulty, tampered_at>>
    /\ UNCHANGED <<engineVars, outVars, netVars, data_list, mining, document>>

\* other.mine_pending(): the new block joins other.chain, and the list
\* other.pending_data refers to is cleared in place
LoadedMinePending(ts) ==
    /\ loaded # <<>>
    /\ LET ref == loaded[1].ledger.pending_data
           r == mine_pending(loaded[1].ledger.chain, ListAt(ref),
                             loaded[1].ledger.difficulty, ts)
       IN  /\ ref.list = "pending_data"
           /\ ListAt(ref) = <<>> \/ Len(loaded[1].ledger.chain) < MaxBlocks
           /\ loaded' = <<[loaded[1] EXCEPT !.ledger.chain = r.chain]>>
           /\ pending_data' = r.pending_data
           /\ result' = r.result
    /\ op' = "other.mine_pending"
    /\ UNCHANGED <<chain, difficulty, tampered_at>>
    /\ UNCHANGED <<engineVars, outVars, netVars, data_list, mining, document>>

NextFrame ==
    \/ \E data \in Payloads : AddData(data)
    \/ \E ts \in Times : MinePending(ts)
    \/ IsChainValid
    \/ GetMessages
    \/ ToDict

\* every operation of the ledger
SpecFrame == Init /\ [][NextFrame]_vars

\* the data a stored block is overwritten with before the ledger is saved
Overwrites == {[messages |-> <<>>]}

\* what the holder of the original and the holder of the loaded ledger add
OriginalAdds == {[i |-> 1]}
LoadedAdds == {[i |-> NumPayloads]}

NextDoc ==
    \/ \E data \in OriginalAdds : DocEntries < MaxEntries /\ AddData(data)
    \/ \E ts \in Times : MinePending(ts)
    \/ ToDict
    \/ FromDict
    \/ \E data \in LoadedAdds : LoadedAddData(data)
    \/ \E ts \in Times : LoadedMinePending(ts)
    \/ \E i \in 0..(MaxBlocks - 1), d \in Overwrites :
          document = <<>> /\ TamperData(i, d)

\* a ledger, the document made of it, and the ledger loaded from that
SpecDoc == InitEngineSpec /\ [][NextDoc]_vars

\* --------------------------------------------------------- Merkle root
\* the byte strings handed to calculate_merkle_root
Items == {<<1>>, <<2>>, <<3>>}
DataLists == SeqsUpTo(Items, MaxItems)

next_level_promoting(hashes) ==
    [k \in 1..((Len(hashes) + 1) \div 2) |->
        IF 2 * k <= Len(hashes)
        THEN Sha256Hex(hashes[2 * k - 1] \o hashes[2 * k])
        ELSE hashes[2 * k - 1]]

next_level_zero_padded(hashes) ==
    LET padded == IF Len(hashes) % 2 # 0
                  THEN Append(hashes, ZeroHash)
                  ELSE hashes
    IN  [k \in 1..(Len(padded) \div 2) |->
            Sha256Hex(padded[2 * k - 1] \o padded[2 * k])]

\* one pass of the while loop: an odd level gets its last hash appended
\* again, then each adjacent pair is concatenated and hashed
next_level(hashes) ==
    LET padded == IF Len(hashes) % 2 # 0
                  THEN Append(hashes, hashes[Len(hashes)])
                  ELSE hashes
    IN  [k \in 1..(Len(padded) \div 2) |->
            Sha256Hex(padded[2 * k - 1] \o padded[2 * k])]

\* while len(hashes) > 1
RECURSIVE build_tree(_)
build_tree(hashes) ==
    IF Len(hashes) > 1 THEN build_tree(next_level(hashes)) ELSE hashes

calculate_merkle_root_padded(list) ==
    IF list = <<>> THEN Sha256Hex(<<>>)
    ELSE LET hashes == [k \in DOMAIN list |-> Sha256Hex(list[k])]
         IN  IF Len(hashes) = 1
             THEN Sha256Hex(hashes[1] \o hashes[1])
             ELSE build_tree(hashes)[1]

\* calculate_merkle_root(data_list)
calculate_merkle_root(list) ==
    IF list = <<>> THEN Sha256Hex(<<>>)
    ELSE build_tree([k \in DOMAIN list |-> Sha256Hex(list[k])])[1]

InitMerkle ==
    /\ InitLedger({DefaultDifficulty}) /\ InitEngine /\ InitOut /\ NoNet
    /\ data_list \in DataLists
    /\ mining = <<>>
    /\ document = <<>>
    /\ loaded = <<>>

\* root = calculate_merkle_root(data_list)
CalculateMerkleRoot ==
    /\ op = "init"
    /\ op' = "calculate_merkle_root"
    /\ result' = <<calculate_merkle_root(data_list)>>
    /\ UNCHANGED <<chain, pending_data, difficulty, tampered_at>>
    /\ UNCHANGED <<engineVars, outVars, netVars, utilVars>>

NextMerkle == CalculateMerkleRoot

SpecMerkle == InitMerkle /\ [][NextMerkle]_vars

\* ------------------------------------------------------------ Block.mine
mine_step_by_two(b) ==
    LET b1 == [b EXCEPT !.nonce = @ + 2]
    IN  [b1 EXCEPT !.hash = calculate_hash(b1)]

\* one pass of the while loop of Block.mine
mine_step(b) ==
    LET b1 == [b EXCEPT !.nonce = @ + 1]
    IN  [b1 EXCEPT !.hash = calculate_hash(b1)]

\* the blocks constructed: Block(index, timestamp, data, previous_hash)
Constructed ==
    {NewBlock(index, ts, data, ZeroHash) :
        index \in 0..1, ts \in Times, data \in DataValues}

\* a block just constructed, mine not yet called on it
InitMine ==
    /\ InitLedger({DefaultDifficulty}) /\ InitEngine /\ InitOut /\ NoNet
    /\ data_list = <<>>
    /\ document = <<>>
    /\ loaded = <<>>
    /\ \E b \in Constructed :
          mining = <<[block |-> b, pc |-> "constructed", d |-> 0,
                      start |-> b, calls |-> 0]>>

\* block.mine(d) is called
CallMine(d) ==
    /\ mining[1].pc \in {"constructed", "mined"}
    /\ mining[1].calls < MaxMineCalls
    /\ mining' = <<[mining[1] EXCEPT !.pc = "mining", !.d = d,
                                     !.start = mining[1].block,
                                     !.calls = @ + 1]>>
    /\ UNCHANGED <<chain, pending_data, difficulty, op, result, tampered_at>>
    /\ UNCHANGED <<engineVars, outVars, netVars, data_list, document, loaded>>

\* the loop condition holds: one more nonce is tried
MineStep ==
    /\ mining[1].pc = "mining"
    /\ ~StartsWithZeros(mining[1].block.hash, mining[1].d)
    /\ mining' = <<[mining[1] EXCEPT !.block = mine_step(@)]>>
    /\ UNCHANGED <<chain, pending_data, difficulty, op, result, tampered_at>>
    /\ UNCHANGED <<engineVars, outVars, netVars, data_list, document, loaded>>

\* the hash starts with the target: mine returns
MineReturn ==
    /\ mining[1].pc = "mining"
    /\ StartsWithZeros(mining[1].block.hash, mining[1].d)
    /\ mining' = <<[mining[1] EXCEPT !.pc = "mined"]>>
    /\ UNCHANGED <<chain, pending_data, difficulty, op, result, tampered_at>>
    /\ UNCHANGED <<engineVars, outVars, netVars, data_list, document, loaded>>

NextMine ==
    \/ \E d \in Difficulties : CallMine(d)
    \/ MineStep
    \/ MineReturn

SpecMine == InitMine /\ [][NextMine]_vars

\* ------------------------------------------------------ the ledger's order
\* the entry the inbound handler t owes the ledger
OwedReceivedEntry(t) ==
    [type |-> "received", id |-> tasks[t].received[1].id,
     sender |-> tasks[t].received[1].sender,
     timestamp |-> tasks[t].received[1].timestamp]
\* the add_data calls made so far, from the calls that made them
AddDataCalls ==
    Cardinality({s \in SendIds : sends[s].entry # <<>>})
    + Cardinality({t \in 1..MaxTasks : tasks[t].received # <<>>})

\* C21: under any interleaving of send_text, broadcast_text, inbound
\* handling and mine_pending on one engine, get_messages() followed by the
\* pending buffer is the sequence of entries in the order of their add_data
\* calls, each once: every call that records appends its entry at the end,
\* every other step (mine_pending included) leaves the sequence as it is.
C21_AppendOrder ==
    /\ [](Len(LedgerEntries) = AddDataCalls)
    /\ [][/\ \A s \in SendIds :
                (sends[s].pc = "idle" /\ sends'[s].entry # <<>>) =>
                    LedgerEntries' = Append(LedgerEntries, sends'[s].entry[1])
          /\ \A t \in 1..MaxTasks :
                (tasks[t].pc = "idle" /\ tasks'[t].received # <<>>) =>
                    LedgerEntries' = Append(LedgerEntries,
                                            OwedReceivedEntry(t)')
          /\ ((\A s \in SendIds : sends'[s].entry = sends[s].entry)
              /\ (\A t \in 1..MaxTasks :
                     tasks'[t].received = tasks[t].received)) =>
                LedgerEntries' = LedgerEntries]_vars

C21_Witness ==
    /\ Len(chain) = 3
    /\ Len(pending_data) = 1
    /\ LedgerEntries[1].type = "received"
    /\ LedgerEntries[2].type = "broadcast"
    /\ LedgerEntries[3].type = "message"
    /\ sends[1].kind = "broadcast_text"
    /\ sends[2].pc = "dispatch"

\* C22: the ledger is append-only: across add_data, mine_pending,
\* is_chain_valid, get_messages and to_dict the blocks already in the chain
\* keep their position and all six fields and the chain never gets shorter;
\* add_data changes nothing but the pending buffer, to whose end it appends
\* one payload; is_chain_valid, get_messages and to_dict change nothing of
\* the ledger.
C22_AppendOnly ==
    [][/\ Len(chain') >= Len(chain)
       /\ \A i \in DOMAIN chain :
             /\ chain'[i].index = chain[i].index
             /\ chain'[i].timestamp = chain[i].timestamp
             /\ chain'[i].data = chain[i].data
             /\ chain'[i].previous_hash = chain[i].previous_hash
             /\ chain'[i].nonce = chain[i].nonce
             /\ chain'[i].hash = chain[i].hash
       /\ difficulty' = difficulty
       /\ op' = "add_data" =>
             /\ chain' = chain
             /\ \E data \in Payloads : pending_data' = Append(pending_data, data)
       /\ op' = "mine_pending" =>
             \/ UNCHANGED <<chain, pending_data>>
             \/ Len(chain') = Len(chain) + 1 /\ pending_data' = <<>>
       /\ op' \in {"is_chain_valid", "get_messages", "to_dict"} =>
             UNCHANGED <<chain, pending_data, difficulty>>
       /\ op' \in {"add_data", "mine_pending", "is_chain_valid",
                   "get_messages", "to_dict"}]_vars

C22_Witness ==
    /\ op = "get_messages"
    /\ Len(result[1]) = 2
    /\ Len(chain) = 3
    /\ pending_data # <<>>
    /\ document # <<>>
    /\ Len(document[1].chain_then) = 2

\* ------------------------------------------------ claims on the Merkle root
H(x) == Sha256Hex(x)
Root == result[1]
Rooted(n) == op = "calculate_merkle_root" /\ Len(data_list) = n

\* C23: calculate_merkle_root([x]) for a single item x equals the hash of
\* x's hash combined with itself, H(H(x) + H(x)), under the duplicate-last
\* rule.
C23_SingleItemDuplicated ==
    Rooted(1) => Root = H(H(data_list[1]) \o H(data_list[1]))

\* C23 as amended: calculate_merkle_root([x]) for a single item x equals
\* H(x), the hash of the item: a level of one hash is the root, and the
\* duplicate-last rule applies only to an odd level of more than one hash.
C23_SingleItemRoot ==
    Rooted(1) => /\ Root = H(data_list[1])
                 /\ Root # H(H(data_list[1]) \o H(data_list[1]))

C23_Witness ==
    /\ Rooted(1)
    /\ data_list = <<<<2>>>>
    /\ Root = H(<<2>>)

\* C24: calculate_merkle_root returns the hash of the empty byte string on
\* empty input; for two or more items it hashes each item and then, level by
\* level, hashes the concatenation of each adjacent pair of hashes,
\* duplicating the last hash of a level whose count is odd (never promoting
\* the unpaired node), until one hash remains: [a,b] gives H(H(a)+H(b)),
\* [a,b,c] gives H(H(H(a)+H(b)) + H(H(c)+H(c))), [a,b,c,d] gives
\* H(H(H(a)+H(b)) + H(H(c)+H(d))), and [a,b,c,d,e] gives
\* H(H(H(H(a)+H(b)) + H(H(c)+H(d))) + H(H(H(e)+H(e)) + H(H(e)+H(e)))).
C24_MerkleLevels ==
    LET h(k) == H(data_list[k])
        pair(x, y) == H(x \o y)
    IN  /\ Rooted(0) => Root = H(<<>>)
        /\ Rooted(2) => Root = pair(h(1), h(2))
        /\ Rooted(3) => Root = pair(pair(h(1), h(2)), pair(h(3), h(3)))
        /\ Rooted(4) => Root = pair(pair(h(1), h(2)), pair(h(3), h(4)))
        /\ Rooted(5) =>
              Root = pair(pair(pair(h(1), h(2)), pair(h(3), h(4))),
                          pair(pair(h(5), h(5)), pair(h(5), h(5))))
        /\ op = "calculate_merkle_root" => Len(Root) = HashLen

C24_Witness ==
    /\ Rooted(3)
    /\ data_list[1] # data_list[2] /\ data_list[2] # data_list[3]
    /\ Root = H(H(H(data_list[1]) \o H(data_list[2]))
                \o H(H(data_list[3]) \o H(data_list[3])))
    /\ Root # H(H(H(data_list[1]) \o H(data_list[2])) \o H(data_list[3]))

\* --------------------------------------------- claims on the document
\* the ledger from_dict builds from the document d equals d field by field
SameAsDocument(l, d) ==
    /\ l.difficulty = d.difficulty
    /\ l.pending_data = d.pending_data
    /\ Len(l.chain) = Len(d.chain)
    /\ \A i \in DOMAIN d.chain :
          /\ l.chain[i].index = d.chain[i].index
          /\ l.chain[i].timestamp = d.chain[i].timestamp
          /\ l.chain[i].data = d.chain[i].data
          /\ l.chain[i].previous_hash = d.chain[i].previous_hash
          /\ l.chain[i].nonce = d.chain[i].nonce
          /\ l.chain[i].hash = d.chain[i].hash

\* C25: Blockchain.from_dict rebuilds a ledger whose difficulty, pending
\* payloads and every block's six fields equal those of the document, each
\* stored hash taken verbatim (also when it is not the hash of the block's
\* contents) and no new genesis block created; hence from_dict(to_dict(L))
\* equals L in difficulty, chain and pending, and is_chain_valid() on the
\* loaded ledger answers as on L.
C25_LoadVerbatim ==
    /\ LET d == to_dict(chain, TheList("pending_data"), difficulty)
           l == from_dict(d)
       IN  /\ SameAsDocument(l, d)
           /\ l.difficulty = difficulty
           /\ l.chain = chain
           /\ ListAt(l.pending_data) = pending_data
           /\ is_chain_valid(l.chain, l.difficulty)
                 = is_chain_valid(chain, difficulty)
    /\ op = "from_dict" =>
          /\ SameAsDocument(loaded[1].ledger, document[1].doc)
          /\ loaded[1].ledger.chain = document[1].chain_then
          /\ ListAt(loaded[1].ledger.pending_data)
                = ListAt(document[1].doc.pending_data)

C25_Witness ==
    /\ op = "from_dict"
    /\ Len(loaded[1].ledger.chain) = 3
    /\ loaded[1].ledger.chain[2].hash
          # calculate_hash(loaded[1].ledger.chain[2])
    /\ loaded[1].ledger.chain[2].hash = document[1].doc.chain[2].hash
    /\ ~is_chain_valid(loaded[1].ledger.chain, loaded[1].ledger.difficulty)
    /\ ~is_chain_valid(chain, difficulty)
    /\ ListAt(loaded[1].ledger.pending_data) # <<>>

\* C30: the document returned by Blockchain.to_dict is an independent
\* snapshot: a later add_data or mine_pending on the ledger changes neither
\* the pending list nor the block data held in a document already produced,
\* nor the state of a ledger built from it with from_dict, and a change made
\* to the loaded ledger does not change the original.
C30_IndependentSnapshot ==
    /\ [](document # <<>> =>
            /\ ListAt(document[1].doc.pending_data) = document[1].pending_then
            /\ \A i \in DOMAIN document[1].doc.chain :
                  document[1].doc.chain[i].data
                      = document[1].chain_then[i].data)
    /\ [][(loaded # <<>> /\ op' \in {"add_data", "mine_pending"}) =>
            /\ loaded' = loaded
            /\ ListAt(loaded[1].ledger.pending_data)'
                  = ListAt(loaded[1].ledger.pending_data)]_vars
    /\ [][op' \in {"other.add_data", "other.mine_pending"} =>
            UNCHANGED <<chain, pending_data, difficulty>>]_vars

\* ------------------------------------------------------ claims on mining
\* block b with its nonce set to n and its hash recomputed
WithNonce(b, n) ==
    LET b1 == [b EXCEPT !.nonce = n] IN [b1 EXCEPT !.hash = calculate_hash(b1)]

\* C26: a block is constructed with nonce 0 and its hash computed; Block.mine(d)
\* only ever increases the nonce by one and recomputes the hash; when it
\* returns, the hash is the hash of the contents and starts with d zeros,
\* and the nonce is the smallest value not below the starting nonce for
\* which that holds; when the hash already meets the target (d = 0
\* included) mine changes nothing, so mining a mined block again at the same
\* difficulty is a no-op.
C26_MineSearch ==
    /\ [](LET m == mining[1] IN
          /\ m.pc = "constructed" =>
                m.block.nonce = 0 /\ m.block.hash = calculate_hash(m.block)
          /\ m.block.hash = calculate_hash(m.block)
          /\ m.block.nonce >= m.start.nonce
          /\ m.pc = "mining" =>
                /\ \A n \in m.start.nonce..(m.block.nonce - 1) :
                      ~StartsWithZeros(WithNonce(m.start, n).hash, m.d)
                /\ StartsWithZeros(m.start.hash, m.d) => m.block = m.start
          /\ m.pc = "mined" =>
                /\ StartsWithZeros(m.block.hash, m.d)
                /\ m.block = WithNonce(m.start, m.block.nonce)
                /\ \A n \in m.start.nonce..(m.block.nonce - 1) :
                      ~StartsWithZeros(WithNonce(m.start, n).hash, m.d)
                /\ m.block = mine(m.start, m.d)
                /\ StartsWithZeros(m.start.hash, m.d) => m.block = m.start)
    /\ [][LET m == mining[1]
              n == mining'[1]
          IN  /\ n.block # m.block =>
                    /\ m.pc = "mining" /\ n.pc = "mining"
                    /\ n.block.nonce = m.block.nonce + 1
                    /\ n.block.hash = calculate_hash(n.block)
                    /\ n.block.index = m.block.index
                    /\ n.block.timestamp = m.block.timestamp
                    /\ n.block.data = m.block.data
                    /\ n.block.previous_hash = m.block.previous_hash
              /\ (m.pc = "mined" /\ n.pc = "mining" /\ n.d = m.d) =>
                    /\ n.block = m.block
                    /\ StartsWithZeros(n.start.hash, n.d)]_vars

C26_Witness ==
    LET m == mining[1] IN
    /\ m.pc = "mined"
    /\ m.calls = 2
    /\ m.d = MaxDifficulty
    /\ m.block.nonce >= 2
    /\ m.block = m.start

\* ------------------------------------------------ claims on stream messages
\* handler t starts on a verified stream message in this step
StreamStep(t) ==
    /\ tasks[t].pc = "idle"
    /\ tasks'[t].pc # "idle"
    /\ tasks'[t].mtype \in StreamTypes
    /\ tasks'[t].sigok
\* the positions of the events ev in a handler's trace
EventsIn(log, ev) == {k \in DOMAIN log : log[k].ev = ev}

\* C27: each verified inbound STREAM_START / STREAM_CHUNK / STREAM_END
\* message that carries chunk_info feeds exactly one chunk (its stream_id,
\* sequence, total and the raw content) to the reassembler, and on the call
\* that completes a stream the reassembled payload is surfaced to the
\* handler; a stream message without chunk_info is ignored; no stream message
\* adds a ledger entry, invokes an observer or triggers an acknowledgment.
C27_StreamFeedsReassembler ==
    [][\A t \in 1..MaxTasks :
         StreamStep(t) =>
            LET log == tasks'[t].log
                fed == EventsIn(log, "chunk")
                done == EventsIn(log, "completed")
            IN  /\ tasks'[t].pc = "done"
                /\ tasks'[t].received = <<>>
                /\ UNCHANGED <<chain, pending_data, outbox, callbacks,
                               shared_secrets>>
                /\ EventsIn(log, "observer") = {}
                /\ EventsIn(log, "ack") = {}
                /\ EventsIn(log, "ledger") = {}
                /\ Cardinality(fed) <= 1
                /\ fed = {} => (reassembler' = reassembler /\ done = {})
                /\ \A k \in fed :
                      LET c == log[k].arg[1]
                          now == {x \in reassembler :
                                     ~(x.stream_id = c.stream_id
                                       /\ x.sequence = c.sequence)} \cup {c}
                          stream == {x \in now : x.stream_id = c.stream_id}
                          complete == \A q \in 0..(c.total - 1) :
                                         \E x \in stream : x.sequence = q
                      IN  /\ DOMAIN c = {"stream_id", "sequence", "total",
                                         "data"}
                          /\ c.data = Plain("hi")
                          /\ complete =>
                                /\ reassembler' = now \ stream
                                /\ Cardinality(done) = 1
                                /\ \A j \in done :
                                      /\ Len(log[j].arg[1]) = c.total
                                      /\ \A q \in 1..c.total :
                                            \E x \in stream :
                                               /\ x.sequence = q - 1
                                               /\ log[j].arg[1][q] = x.data
                          /\ ~complete =>
                                (reassembler' = now /\ done = {})]_vars

C27_Witness ==
    /\ tasks[1].mtype = "STREAM_END" /\ tasks[1].sigok
    /\ EventsIn(tasks[1].log, "chunk") # {}
    /\ EventsIn(tasks[1].log, "completed") = {}
    /\ tasks[2].mtype = "STREAM_START" /\ tasks[2].sigok
    /\ \E j \in EventsIn(tasks[2].log, "completed") :
          tasks[2].log[j].arg[1] = <<Plain("hi"), Plain("hi")>>
    /\ reassembler = {}
    /\ pending_data = <<>>
    /\ outbox = <<>>
    /\ Len(callbacks) = 1

\* --------------------------------------- claims on what observers receive
\* handler t has handed its ReceivedMessage to an observer
Surfaced(t) == EventsIn(tasks[t].log, "observer") # {}

\* C28: a verified inbound TEXT message that carries a nonce is surfaced to
\* observers only after successful decryption: with a nonce and no shared
\* secret for the origin peer, the raw content is never decoded and delivered
\* as if it were plaintext.
C28_SurfacedOnlyDecrypted ==
    \A t \in 1..MaxTasks :
        (/\ tasks[t].mtype = "TEXT"
         /\ tasks[t].sigok
         /\ tasks[t].nonce # None
         /\ Surfaced(t)) => tasks[t].decrypted

\* C29: each message id is surfaced at most once: when the same verified
\* TEXT message (same id, same signature) is delivered to _handle_incoming
\* twice, the second delivery does not invoke the observers again, adds no
\* second 'received' ledger entry and sends no second acknowledgment.
C29_SurfacedOnce ==
    \A t \in 1..MaxTasks : \A u \in (t + 1)..MaxTasks :
        (/\ tasks[t].message # <<>>
         /\ tasks[t].received # <<>>
         /\ tasks[u].message = tasks[t].message) =>
            /\ EventsIn(tasks[u].log, "ledger") = {}
            /\ EventsIn(tasks[u].log, "observer") = {}
            /\ EventsIn(tasks[u].log, "ack") = {}

\* ------------------------------------- claims on batches sharing a root
\* the batch with its last item once more
WithLastAgain(list) == Append(list, list[Len(list)])

\* C31: for every item list of odd length n >= 3, calculate_merkle_root(items)
\* equals calculate_merkle_root(items + [last item]): two different batches
\* share one root, so the root does not identify the batch; for n = 1 the two
\* roots differ.
C31_OddSharesRoot ==
    /\ (/\ op = "calculate_merkle_root"
        /\ Len(data_list) >= 3
        /\ Len(data_list) % 2 = 1) =>
           /\ WithLastAgain(data_list) # data_list
           /\ Root = calculate_merkle_root(WithLastAgain(data_list))
    /\ Rooted(1) => Root # calculate_merkle_root(WithLastAgain(data_list))

C31_Witness ==
    /\ Rooted(3)
    /\ data_list[1] # data_list[2] /\ data_list[2] # data_list[3]
    /\ Root = calculate_merkle_root(WithLastAgain(data_list))
    /\ \E x \in Items : Root # calculate_merkle_root(Append(data_list, x))

====
